---- MODULE Spec2Model ----
(***************************************************************************)
(* Admission control of the canteen backend: the /tap, /preorder and       *)
(* /transaction handlers of src/python/src/api_routes.py running           *)
(* concurrently over one SQLite store (WAL, one writer at a time).         *)
(*                                                                         *)
(* A handler is a process; each step of a process is one statement group   *)
(* of the handler between two points where another connection can commit.  *)
(***************************************************************************)
EXTENDS Integers, FiniteSets, Sequences, Bags, TLC

(***************************************************************************)
(* Bounds of the model.                                                    *)
(***************************************************************************)
MaxDay == 2        \* local calendar days 1..MaxDay
MaxQuota == 1      \* largest tenants.quota of a tenant table
NumTaps == 3       \* handlers of the specification of simultaneous taps
MaxMidnights == 1  \* midnights that pass in the specification of the clock
MaxEvents == 3     \* notifications triggered in the specification of the streams

Procs == {1, 2}    \* the concurrent request handlers
Days == 1..MaxDay

(***************************************************************************)
(* Lookup data.  Employee ids and card numbers are strings; an eligible    *)
(* employee e carries card number e.  One employee is disabled, one is     *)
(* blocked, and "missing" is neither an employee id nor a card number.     *)
(* There are two tenants; the tenant id after the last has no row.         *)
(***************************************************************************)
DisabledEmp == "disabled"
BlockedEmp == "blocked"
MissingEmp == "missing"

TenantIds == {1, 2}
MissingTenant == Cardinality(TenantIds) + 1

EmployeeTable(eligible) ==
  [e \in eligible \cup {DisabledEmp, BlockedEmp} |->
     [card_number |-> e,
      is_disabled |-> (e = DisabledEmp),
      is_blocked |-> (e = BlockedEmp)]]

\* column tenants.quota is INTEGER and nullable: the stored value NULL
NullQuota == -2

\* tenant["quota"] or 0: NULL and 0 read as 0, every other value as itself
OrZero(quota) == IF quota = NullQuota THEN 0 ELSE quota

TenantRows == [quota : -1..MaxQuota, is_limited : BOOLEAN]
TenantTables == [TenantIds -> TenantRows]

VARIABLES
  employees,     \* table employees: employee_id -> row
  tenants,       \* table tenants: id -> [quota, is_limited]
  transactions,  \* table transactions (the ledger): bag of committed rows
  preorders,     \* table preorders: bag of committed rows
  lock,          \* the connection holding SQLite's write lock, 0 if none
  today,         \* the local calendar date of the wall clock
  pc,            \* per handler: its position
  req,           \* per handler: the request it serves
  loc,           \* per handler: its local variables
  uncommitted,   \* per handler: rows written in its open transaction
  response,      \* the response a handler has just returned, until it is sent
  main_event_loop, \* sse_manager.main_event_loop is set (a notifier is attached)
  sse_event,     \* the payload a handler has just handed to the notifier
  background_tasks, \* the e-mails a handler has queued to be sent after its response
  midnights,     \* the midnights of the wall clock still to come in the period
  raw_ts,        \* _normalize_timestamp_to_local: two raw timestamps
  local_dt,      \* _normalize_timestamp_to_local: what it returns for them
  canteen,       \* the canteen status where a specification follows it: the
                 \* stored mode, the override file, the local time of day
  connections,   \* sse_manager.connections: the queues of the open streams
  queues,        \* per client: the content of its stream's asyncio.Queue
  streams,       \* per client: position and locals of its event_stream
  sent,          \* per client: the data lines its stream has yielded
  triggered      \* the number of runs of trigger_sse_event_async so far

vars == <<employees, tenants, transactions, preorders, lock, today,
          pc, req, loc, uncommitted, response, main_event_loop, sse_event,
          background_tasks, midnights, raw_ts, local_dt,
          canteen, connections, queues, streams, sent, triggered>>

\* the canteen status and the notifier's streams
gate_and_streams == <<canteen, connections, queues, streams, sent, triggered>>

\* the tables no admission handler writes and the notifier's loop
config == <<employees, tenants, main_event_loop, raw_ts, local_dt, gate_and_streams>>
\* the same with the clock
lookups == <<employees, tenants, today, midnights, main_event_loop, raw_ts, local_dt,
            gate_and_streams>>
\* the committed rows and the write lock
store == <<transactions, preorders, lock>>

(***************************************************************************)
(* Values of the handlers' records.                                        *)
(***************************************************************************)
NoReq == [kind |-> "none", who |-> "none", tenant_id |-> 0]
NoLoc == [card_number |-> "none", quota |-> 0, transaction_day |-> 0,
          quota_reason |-> "none", order_count |-> 0, quota_day |-> 0]
NoRows == [tx |-> EmptyBag, pre |-> EmptyBag]

\* tap_id names a tap request: the client pairs a response with its request
\* through it, so it stands for the card number and the tenant id sent
NoTapId == [card_number |-> "none", tenant_id |-> 0]
TapId(card_number, tenant_id) == [card_number |-> card_number, tenant_id |-> tenant_id]

\* a response: the kind of request it answers, the HTTP status code, and
\* status and reason of the body (for an HTTPException the
\* status is "error" and the reason names its detail); queue_number and
\* ticket_number are those of a created pre-order, 0 otherwise
\* the dict evaluate_tenant_quota_for_today returns; remaining_for_target is
\* the empty set for None and {n} for the number n
NoQuotaState ==
  [tenant_id |-> 0, target_quota |-> 0, target_is_limited |-> FALSE,
   remaining_for_target |-> {}, max_remaining_any |-> 0,
   can_order_for_target |-> FALSE, is_free_mode |-> FALSE]

NoResponse == [kind |-> "none", code |-> 0, status |-> "none", reason |-> "none",
               tap_id |-> NoTapId, queue_number |-> 0, ticket_number |-> 0,
               quota_state |-> NoQuotaState]
Response(k, c, s, r) ==
  [NoResponse EXCEPT !.kind = k, !.code = c, !.status = s, !.reason = r]
\* a TapTransactionResponse, which echoes the tap_id of its request
TapResponse(tap_id, c, s, r) == [Response("tap", c, s, r) EXCEPT !.tap_id = tap_id]

\* background_tasks.add_task(send_order_confirmation, ...): the handler that
\* queued the tasks and the recipients of the e-mails
NoTasks == [by |-> 0, recipients |-> {}]
Recipients == {"employee", "canteen"}

\* sse_payload: the tenant id, the employee id and the tap_id (None for a
\* pre-order and a direct create) of the event committed
NoSseEvent == [id |-> 0, employee_id |-> "none", tap_id |-> NoTapId]
SsePayload(tenant_id, employee_id, tap_id) ==
  [id |-> tenant_id, employee_id |-> employee_id, tap_id |-> tap_id]

(***************************************************************************)
(* Queries over the tables.                                                *)
(***************************************************************************)
\* SELECT COUNT(*): the number of rows of table B among the matching ones
CountWhere(B, matching) ==
  BagCardinality([r \in BagToSet(B) \cap matching |-> CopiesIn(r, B)])

\* SELECT ... FROM employees WHERE card_number = ?
EmployeesByCard(card) == {e \in DOMAIN employees : employees[e].card_number = card}

\* the rows a connection reads: the committed rows, and inside its own open
\* transaction also the rows it has written itself
VisibleTx(p) == transactions (+) uncommitted[p].tx
VisiblePre(p) == preorders (+) uncommitted[p].pre

\* a guard that finds no row
CardHasNoTransaction(rows, card_number, transaction_day) == FALSE

\* api_routes._card_has_transaction_for_day: False for an empty card number
\* without a look at the table
CardHasTransactionForDay(rows, card_number, transaction_day) ==
  /\ card_number # ""
  /\ \E r \in BagToSet(rows) :
       r.card_number = card_number /\ r.transaction_day = transaction_day

\* SELECT COUNT(*) FROM transactions WHERE tenant_id = ? AND transaction_day = ?
TenantOrdersOnDay(rows, tenant_id, transaction_day) ==
  CountWhere(rows, {r \in BagToSet(rows) :
    r.tenant_id = tenant_id /\ r.transaction_day = transaction_day})

\* a ledger without the unique index: no INSERT is refused
NoCardDayIndex(rows, row) == FALSE

\* the unique index idx_transactions_card_day on (card_number, transaction_day)
ViolatesCardDayIndex(rows, row) ==
  \E r \in BagToSet(rows) :
    r.card_number = row.card_number /\ r.transaction_day = row.transaction_day

\* the scan with the comparison >= 0: a full tenant counts as one with room
TapAnyTenantNotOverfull(rows, transaction_day) ==
  \E t \in DOMAIN tenants :
    /\ tenants[t].quota > 0
    /\ tenants[t].quota - TenantOrdersOnDay(rows, t, transaction_day) >= 0

\* tap_transaction, the scan of the tenants with quota > 0 (free-mode test)
TapAnyTenantWithRemaining(rows, transaction_day) ==
  \E t \in DOMAIN tenants :
    /\ tenants[t].quota # NullQuota /\ tenants[t].quota > 0
    /\ OrZero(tenants[t].quota) - TenantOrdersOnDay(rows, t, transaction_day) > 0

\* tap_transaction, the quota verdict computed between the duplicate guard
\* and the insert
TapQuotaReason(rows, tenant_id, quota_value, transaction_day) ==
  LET remaining_slots == quota_value - TenantOrdersOnDay(rows, tenant_id, transaction_day)
  IN  IF quota_value = 0 THEN "unlimited"
      ELSE IF remaining_slots > 0 THEN "ok"
      ELSE IF TapAnyTenantWithRemaining(rows, transaction_day) THEN "quota_exceeded"
      ELSE "free_mode"

\* the quota_exceeded return with the comparison remaining_slots < 0
TapQuotaRejectsOffByOne(rows, tenant_id, quota_value, transaction_day) ==
  LET remaining_slots == quota_value - TenantOrdersOnDay(rows, tenant_id, transaction_day)
      allow_due_to_free_mode ==
        TapQuotaReason(rows, tenant_id, quota_value, transaction_day) = "free_mode"
  IN  quota_value > 0 /\ remaining_slots < 0 /\ ~allow_due_to_free_mode

\* the quota_exceeded return without the test quota_value > 0
TapQuotaRejectsAnyQuota(rows, tenant_id, quota_value, transaction_day) ==
  LET remaining_slots == quota_value - TenantOrdersOnDay(rows, tenant_id, transaction_day)
      allow_due_to_free_mode ==
        TapQuotaReason(rows, tenant_id, quota_value, transaction_day) = "free_mode"
  IN  quota_value # 0 /\ remaining_slots <= 0 /\ ~allow_due_to_free_mode

\* tap_transaction, the condition of the quota_exceeded return
TapQuotaRejects(rows, tenant_id, quota_value, transaction_day) ==
  LET remaining_slots == quota_value - TenantOrdersOnDay(rows, tenant_id, transaction_day)
      allow_due_to_free_mode ==
        TapQuotaReason(rows, tenant_id, quota_value, transaction_day) = "free_mode"
  IN  quota_value > 0 /\ remaining_slots <= 0 /\ ~allow_due_to_free_mode

(***************************************************************************)
(* The canteen status and the notifier's streams, where no specification   *)
(* follows them: each pre-order reads a status of its own, no client has   *)
(* opened a stream.                                                        *)
(***************************************************************************)
\* the clients that open an event stream
Clients == {1, 2}

NoCanteen == [mode |-> "none", override |-> "none", time |-> [hour |-> 0, minute |-> 0]]

\* an event_stream that has not been called
NoStream == [pc |-> "none", data |-> 0, is_disconnected |-> FALSE]

\* no client has opened a stream, no notification has been triggered
NoStreams ==
  /\ connections = <<>>
  /\ queues = [c \in Clients |-> <<>>]
  /\ streams = [c \in Clients |-> NoStream]
  /\ sent = [c \in Clients |-> <<>>]
  /\ triggered = 0

NoGateNoStreams == canteen = NoCanteen /\ NoStreams

(***************************************************************************)
(* Initial state: the tables as create_tables leaves them plus the lookup  *)
(* data, an empty ledger, no handler running.                              *)
(***************************************************************************)
InitWithLoop(eligible, tenantTables, procs, loops) ==
  /\ main_event_loop \in loops
  /\ sse_event = NoSseEvent
  /\ background_tasks = NoTasks
  /\ midnights = 0
  /\ raw_ts = <<>>
  /\ local_dt = <<>>
  /\ NoGateNoStreams
  /\ employees = EmployeeTable(eligible)
  /\ tenants \in tenantTables
  /\ transactions = EmptyBag
  /\ preorders = EmptyBag
  /\ lock = 0
  /\ today = 1
  /\ pc = [p \in procs |-> "idle"]
  /\ req = [p \in procs |-> NoReq]
  /\ loc = [p \in procs |-> NoLoc]
  /\ uncommitted = [p \in procs |-> NoRows]
  /\ response = NoResponse

\* the application as api.py starts it: lifespan has set main_event_loop
InitWith(eligible, tenantTables, procs) ==
  InitWithLoop(eligible, tenantTables, procs, {TRUE})

\* handler p is at label, and the response of the last return has been sent
At(p, label) == response = NoResponse /\ pc[p] = label

\* the handler returns: its connection is closed and its locals are gone
Return(p, r) ==
  /\ pc' = [pc EXCEPT ![p] = "idle"]
  /\ req' = [req EXCEPT ![p] = NoReq]
  /\ loc' = [loc EXCEPT ![p] = NoLoc]
  /\ uncommitted' = [uncommitted EXCEPT ![p] = NoRows]
  /\ response' = r

\* a return on a path that reaches neither the notifier nor add_task
Finish(p, r) ==
  Return(p, r) /\ sse_event' = NoSseEvent /\ background_tasks' = NoTasks

\* update_employee_email(employee_id), called by create_preorder for an
\* employee without e-mail address: the address is found or it is not
UpdateEmployeeEmail(employee_id) == BOOLEAN

\* create_preorder after the commit: one e-mail task for the employee if an
\* address is known, one for the canteen if CANTEEN_ORDER_EMAIL is set
AddMailTasks(p, employee_id) ==
  \E employee_email \in UpdateEmployeeEmail(employee_id), canteen_email \in BOOLEAN :
    background_tasks' =
      [by |-> p,
       recipients |-> {r \in Recipients : \/ r = "employee" /\ employee_email
                                          \/ r = "canteen" /\ canteen_email}]

\* if sse_manager.main_event_loop: asyncio.run_coroutine_threadsafe(
\* trigger_sse_event_async(sse_payload), main_event_loop); the call schedules
\* the coroutine and returns at once
TriggerSse(sse_payload) ==
  sse_event' = IF main_event_loop THEN sse_payload ELSE NoSseEvent

\* a commit of the ledger row alone: the pre-order row is lost
CommitLedgerOnly(p) ==
  /\ transactions' = transactions (+) uncommitted[p].tx
  /\ preorders' = preorders
  /\ lock' = IF lock = p THEN 0 ELSE lock

\* a commit that makes the rows visible and leaves the transaction open
CommitKeepsLock(p) ==
  /\ transactions' = transactions (+) uncommitted[p].tx
  /\ preorders' = preorders (+) uncommitted[p].pre
  /\ lock' = lock

\* conn.commit(): the rows written become visible to every connection and
\* the write lock is released
Commit(p) ==
  /\ transactions' = transactions (+) uncommitted[p].tx
  /\ preorders' = preorders (+) uncommitted[p].pre
  /\ lock' = IF lock = p THEN 0 ELSE lock

\* a rollback that keeps the rows written
RollbackKeepsRows(p) == Commit(p)

\* a rollback that is skipped: the transaction stays open
RollbackKeepsLock(p) == UNCHANGED <<lock, transactions, preorders>>

\* conn.rollback() when the connection is in a transaction: the rows written
\* are dropped with the handler's state and the write lock is released
Rollback(p) ==
  /\ lock' = IF lock = p THEN 0 ELSE lock
  /\ UNCHANGED <<transactions, preorders>>

\* a transaction begun without the write lock (a deferred BEGIN)
NoWriteLock(p) == lock = 0 /\ lock' = lock

\* BEGIN IMMEDIATE and the implicit BEGIN of an INSERT: the write lock is
\* taken by the connection when no connection holds it
TakeWriteLock(p) == lock = 0 /\ lock' = p

\* the handler goes on, with new locals and new uncommitted rows
Continue(p, label, request, locals, rows) ==
  /\ pc' = [pc EXCEPT ![p] = label]
  /\ req' = [req EXCEPT ![p] = request]
  /\ loc' = [loc EXCEPT ![p] = locals]
  /\ uncommitted' = [uncommitted EXCEPT ![p] = rows]
  /\ response' = NoResponse
  /\ sse_event' = NoSseEvent
  /\ background_tasks' = NoTasks

(***************************************************************************)
(* Requests.  Every card may send a request without timestamp (the server  *)
(* clock is used); the cards of ReplayCards also send explicit timestamps  *)
(* of any day.                                                             *)
(***************************************************************************)
ReplayCards == {"e1"}
NoTs == [form |-> "absent", day |-> 0]
InvalidTs == [form |-> "invalid", day |-> 0]
IsoTs(d) == [form |-> "iso", day |-> d]
\* the timestamps of a device: none, or one of any day for a replay card
TapTimestampInputs(who) ==
  {NoTs, InvalidTs} \cup (IF who \in ReplayCards THEN {IsoTs(d) : d \in Days} ELSE {})
\* transactionDate is a required field of POST /transaction
CreateTimestampInputs(who) ==
  {InvalidTs} \cup {IsoTs(d) : d \in IF who \in ReplayCards THEN Days ELSE {today}}
TenantInputs == TenantIds \cup {MissingTenant}
\* the ids and card numbers requests carry: every employee's, and a missing one
EmployeeInputs == DOMAIN employees \cup {MissingEmp}
\* POST /transaction is sent for employees in good standing or a missing id
CreateEmployeeInputs ==
  {e \in DOMAIN employees : ~employees[e].is_disabled /\ ~employees[e].is_blocked}
    \cup {MissingEmp}

\* JAKARTA_TZ: the local zone is 7 hours ahead of UTC
LocalOffset == 7

\* A raw timestamp in whole hours: wall is the date and time as written,
\* counted in hours from 00:00 of day 0, and offset is the UTC offset written
\* after it, {} when none is written ("Z" is the offset 0)
Offsets == {{}, {0}, {LocalOffset}, {-5}}
RawTimestamps == [wall : 0..(24 * MaxDay - 1), offset : Offsets]

\* the day key taken from the date as written, without conversion
DateAsWritten(raw) ==
  [local |-> raw.wall, day |-> raw.wall \div 24]

\* api_routes._normalize_timestamp_to_local for a timestamp that parses: a
\* timestamp without offset gets the local zone (replace(tzinfo=local_tz)),
\* astimezone(local_tz) gives the local date and time of the same instant,
\* and the day key is its date
NormalizeTimestampToLocal(raw) ==
  LET utcoffset == IF raw.offset = {} THEN LocalOffset
                   ELSE CHOOSE h \in raw.offset : TRUE
      local == (raw.wall - utcoffset) + LocalOffset
  IN  [local |-> local, day |-> local \div 24]

\* the day key of a request's timestamp; an "iso" timestamp of day d stands
\* for the raw timestamps that NormalizeTimestampToLocal puts on day d
NormalizeTimestampDay(ts) == IF ts.form = "absent" THEN today ELSE ts.day

\* the row of table transactions the three handlers insert
TransactionRow(card_number, tenant_id, transaction_date, transaction_day) ==
  [card_number |-> card_number, tenant_id |-> tenant_id,
   transaction_date |-> transaction_date, transaction_day |-> transaction_day]

(***************************************************************************)
(* POST /tap: tap_transaction.                                             *)
(***************************************************************************)
\* a card lookup that tests only whether a row was found
CardMissing(card) == EmployeesByCard(card) = {}

\* the employee row the card lookup fetches is missing, disabled or blocked
CardRejected(card) ==
  LET found == EmployeesByCard(card)
  IN  \/ found = {}
      \/ \A e \in found : employees[e].is_disabled \/ employees[e].is_blocked

\* the lookups before the timestamp: card, tenant, then the timestamp
TapLookupTimestampLast(card, tenant_id, ts) ==
  IF CardRejected(card) THEN "unknown_card"
  ELSE IF tenant_id \notin DOMAIN tenants THEN "unknown_tenant"
  ELSE IF ts.form = "invalid" THEN "invalid_timestamp"
  ELSE "begin"

\* tap_transaction up to BEGIN IMMEDIATE: the timestamp is normalized, then
\* the card is looked up, then the tenant; "begin" when all three pass
TapLookupOutcome(card, tenant_id, ts) ==
  IF ts.form = "invalid" THEN "invalid_timestamp"
  ELSE IF CardRejected(card) THEN "unknown_card"
  ELSE IF tenant_id \notin DOMAIN tenants THEN "unknown_tenant"
  ELSE "begin"

\* the two gates in the other order: the quota verdict, then the duplicate guard
TapGateQuotaFirst(rows, card_number, tenant_id, quota_value, transaction_day) ==
  IF TapQuotaRejects(rows, tenant_id, quota_value, transaction_day) THEN "quota_exceeded"
  ELSE IF CardHasTransactionForDay(rows, card_number, transaction_day)
  THEN "duplicate_daily"
  ELSE "insert"

\* tap_transaction between BEGIN IMMEDIATE and the INSERT: the duplicate
\* guard, then the quota verdict; "insert" when both pass
TapGateOutcome(rows, card_number, tenant_id, quota_value, transaction_day) ==
  IF CardHasTransactionForDay(rows, card_number, transaction_day) THEN "duplicate_daily"
  ELSE IF TapQuotaRejects(rows, tenant_id, quota_value, transaction_day)
  THEN "quota_exceeded"
  ELSE "insert"

\* an accepted response that carries the quota verdict's reason
VerdictReason(quota_reason) == quota_reason

\* the reason of the accepted response: the literal "ok"
TapAcceptedReason(quota_reason) == "ok"

\* the request arrives and runs up to BEGIN IMMEDIATE
TapStart(p) ==
  /\ At(p, "idle")
  /\ UNCHANGED <<lookups, store>>
  /\ \E card \in EmployeeInputs, tenant_id \in TenantInputs :
     \E ts \in TapTimestampInputs(card) :
       LET outcome == TapLookupOutcome(card, tenant_id, ts) IN
       IF outcome = "invalid_timestamp"
       THEN Finish(p, Response("tap", 400, "error", outcome))
       ELSE IF outcome # "begin"
       THEN Finish(p, TapResponse(TapId(card, tenant_id), 200, "rejected", outcome))
       ELSE Continue(p, "tap_begin",
                     [kind |-> "tap", who |-> card, tenant_id |-> tenant_id],
                     [NoLoc EXCEPT !.card_number = card,
                                   !.quota = OrZero(tenants[tenant_id].quota),
                                   !.transaction_day = NormalizeTimestampDay(ts)],
                     NoRows)

\* the text of a sqlite3.IntegrityError, by what the handler looks for in it
IntegrityErrors == [unique : BOOLEAN, transaction_day : BOOLEAN]
\* the violation of idx_transactions_card_day: "UNIQUE constraint failed:
\* transactions.card_number, transactions.transaction_day"
UniqueViolation == [unique |-> TRUE, transaction_day |-> TRUE]

\* the second handler of IntegrityError, which no error reaches: status 400
\* with the daily-limit message for a uniqueness violation
IntegrityErrorAsBadRequest(tap_id, error) ==
  IF error.transaction_day \/ error.unique
  THEN Response("tap", 400, "error", "daily_limit")
  ELSE Response("tap", 500, "error", "internal_error")

\* tap_transaction, except sqlite3.IntegrityError: duplicate_daily when the
\* text holds "unique" or "transaction_day", status 500 otherwise
TapIntegrityErrorResponse(tap_id, error) ==
  IF error.unique \/ error.transaction_day
  THEN TapResponse(tap_id, 200, "rejected", "duplicate_daily")
  ELSE Response("tap", 500, "error", "internal_error")

\* BEGIN IMMEDIATE takes the write lock; the duplicate guard, the quota
\* verdict and the INSERT follow inside the transaction.  A violation of the
\* unique index raises IntegrityError, answered as duplicate_daily.
TapAdmit(p) ==
  /\ At(p, "tap_begin")
  /\ lock = 0
  /\ UNCHANGED <<lookups, transactions, preorders>>
  /\ LET rows == VisibleTx(p)
         day == loc[p].transaction_day
         outcome == TapGateOutcome(rows, loc[p].card_number, req[p].tenant_id,
                                   loc[p].quota, day)
         row == TransactionRow(loc[p].card_number, req[p].tenant_id, day, day)
         tap_id == TapId(req[p].who, req[p].tenant_id)
     IN  IF outcome # "insert"
         THEN /\ lock' = 0
              /\ Finish(p, TapResponse(tap_id, 200, "rejected", outcome))
         ELSE IF ViolatesCardDayIndex(rows, row)
         THEN /\ lock' = 0
              /\ Finish(p, TapResponse(tap_id, 200, "rejected", "duplicate_daily"))
         ELSE /\ TakeWriteLock(p)
              /\ Continue(p, "tap_commit", req[p],
                          [loc[p] EXCEPT
                             !.quota_reason =
                               TapQuotaReason(rows, req[p].tenant_id, loc[p].quota, day),
                             !.quota_day = day],
                          [NoRows EXCEPT !.tx = SetToBag({row})])

\* a lock timeout answered like any other sqlite3 error: status 500
TapBusyInternalError(p) ==
  /\ At(p, "tap_begin")
  /\ lock # 0
  /\ Rollback(p)
  /\ Finish(p, Response("tap", 500, "error", "internal_error"))
  /\ UNCHANGED lookups

\* the store refuses the INSERT with an IntegrityError although the duplicate
\* guard found no row (a race the guard missed): rollback, then the answer of
\* the IntegrityError handler
TapInsertRefused(p) ==
  /\ At(p, "tap_begin")
  /\ lock = 0
  /\ TapGateOutcome(VisibleTx(p), loc[p].card_number, req[p].tenant_id,
                    loc[p].quota, loc[p].transaction_day) = "insert"
  /\ Rollback(p)
  /\ \E error \in IntegrityErrors :
       Finish(p, TapIntegrityErrorResponse(TapId(req[p].who, req[p].tenant_id), error))
  /\ UNCHANGED lookups

\* BEGIN IMMEDIATE waits busy_timeout for a lock another connection holds,
\* then raises "database is locked": the db_busy answer, status 409
TapBusy(p) ==
  /\ At(p, "tap_begin")
  /\ lock # 0
  /\ Rollback(p)
  /\ Finish(p, TapResponse(TapId(req[p].who, req[p].tenant_id), 409, "rejected", "db_busy"))
  /\ UNCHANGED lookups

\* conn.commit(), then the accepted response is built and the notifier told
TapCommit(p) ==
  /\ At(p, "tap_commit")
  /\ Commit(p)
  /\ Return(p, TapResponse(TapId(req[p].who, req[p].tenant_id), 200, "accepted",
                           TapAcceptedReason(loc[p].quota_reason)))
  /\ TriggerSse(SsePayload(req[p].tenant_id,
                           CHOOSE e \in EmployeesByCard(loc[p].card_number) : TRUE,
                           TapId(req[p].who, req[p].tenant_id)))
  /\ background_tasks' = NoTasks
  /\ UNCHANGED lookups

\* a storage error after which the notifier is told all the same
TapStorageErrorNotifies(p) ==
  /\ At(p, "tap_commit")
  /\ Rollback(p)
  /\ Return(p, Response("tap", 500, "error", "internal_error"))
  /\ TriggerSse(SsePayload(req[p].tenant_id,
                           CHOOSE e \in EmployeesByCard(loc[p].card_number) : TRUE,
                           TapId(req[p].who, req[p].tenant_id)))
  /\ background_tasks' = NoTasks
  /\ UNCHANGED lookups

\* any other sqlite3 error inside the transaction: rollback, status 500
TapStorageError(p) ==
  /\ At(p, "tap_commit")
  /\ Rollback(p)
  /\ Finish(p, Response("tap", 500, "error", "internal_error"))
  /\ UNCHANGED lookups

(***************************************************************************)
(* quota_utils.evaluate_tenant_quota_for_today.                            *)
(***************************************************************************)
\* a count that sees no row
TenantOrdersNotCounted(rows, tenant_id, day) == 0

\* the order_count column: rows of the tenant whose DATE(transaction_date)
\* is the day
TenantOrdersOnDate(rows, tenant_id, day) ==
  CountWhere(rows, {r \in BagToSet(rows) :
    r.tenant_id = tenant_id /\ r.transaction_date = day})

\* limited_rows: the tenants with quota > 0
LimitedTenants == {t \in DOMAIN tenants : OrZero(tenants[t].quota) > 0}

SetMax(S) == CHOOSE m \in S : \A x \in S : x <= m

\* max_remaining_any
MaxRemainingAny(rows, day) ==
  IF LimitedTenants = {} THEN 0
  ELSE SetMax({tenants[t].quota - TenantOrdersOnDate(rows, t, day) : t \in LimitedTenants})

\* can_order_for_target
CanOrderForTarget(rows, target_tenant_id, day) ==
  LET target_is_limited == OrZero(tenants[target_tenant_id].quota) > 0
      target_remaining ==
        tenants[target_tenant_id].quota - TenantOrdersOnDate(rows, target_tenant_id, day)
  IN  IF LimitedTenants = {} \/ ~target_is_limited THEN TRUE
      ELSE IF MaxRemainingAny(rows, day) <= 0 THEN TRUE
      ELSE target_remaining > 0

\* is_free_mode
IsFreeMode(rows, day) == LimitedTenants # {} /\ MaxRemainingAny(rows, day) <= 0

\* the result dict for a tenant that has a row
EvaluateTenantQuotaForToday(rows, target_tenant_id, day) ==
  LET target_quota_value == tenants[target_tenant_id].quota
      target_is_limited == OrZero(target_quota_value) > 0
  IN  [tenant_id |-> target_tenant_id,
       target_quota |-> target_quota_value,
       target_is_limited |-> target_is_limited,
       remaining_for_target |->
         IF target_is_limited
         THEN {target_quota_value - TenantOrdersOnDate(rows, target_tenant_id, day)}
         ELSE {},
       max_remaining_any |-> MaxRemainingAny(rows, day),
       can_order_for_target |-> CanOrderForTarget(rows, target_tenant_id, day),
       is_free_mode |-> IsFreeMode(rows, day)]

(***************************************************************************)
(* GET /tenant/{tenant_id}/quota-state: get_tenant_quota_state.            *)
(***************************************************************************)
\* a query that runs inside a write transaction it leaves open
GetTenantQuotaStateLocking(p) ==
  /\ At(p, "idle")
  /\ TakeWriteLock(p)
  /\ \E tenant_id \in TenantInputs :
       Finish(p, IF tenant_id \notin DOMAIN tenants
                 THEN Response("quota_state", 404, "error", "not_found")
                 ELSE [Response("quota_state", 200, "ok", "ok") EXCEPT
                         !.quota_state =
                           EvaluateTenantQuotaForToday(transactions, tenant_id, today)])
  /\ UNCHANGED <<lookups, transactions, preorders>>

\* the whole handler: a connection of the default mode, the evaluator's one
\* SELECT over the committed rows, the result as the response; a tenant
\* without row is answered 404
GetTenantQuotaState(p) ==
  /\ At(p, "idle")
  /\ \E tenant_id \in TenantInputs :
       Finish(p, IF tenant_id \notin DOMAIN tenants
                 THEN Response("quota_state", 404, "error", "not_found")
                 ELSE [Response("quota_state", 200, "ok", "ok") EXCEPT
                         !.quota_state =
                           EvaluateTenantQuotaForToday(transactions, tenant_id, today)])
  /\ UNCHANGED <<lookups, store>>

(***************************************************************************)
(* POST /preorder: create_preorder.                                        *)
(***************************************************************************)
\* create_preorder, the second quota test after the count of the day's rows
PreorderAnyTenantWithRemaining(rows, day) ==
  \E t \in DOMAIN tenants :
    /\ tenants[t].quota > 0
    /\ tenants[t].quota - TenantOrdersOnDate(rows, t, day) > 0

\* a queue number without the shift by one: the capacity left after the order
PreorderQueueNumberNoShift(quota_value, order_count_today) ==
  quota_value - order_count_today

\* create_preorder, queue_number from the quota and the count that includes
\* the new order
PreorderQueueNumber(quota_value, order_count_today) ==
  LET remaining_after == quota_value - order_count_today
  IN  IF quota_value > 0 /\ remaining_after >= 0
      THEN remaining_after + 1
      ELSE remaining_after

\* create_preorder between BEGIN IMMEDIATE and the inserts: the checks in
\* the order of the code; "insert" when all pass.  day is the handler's
\* today, quota_day the today of evaluate_tenant_quota_for_today
PreorderGateOutcomeAt(rows, orders, employee_id, tenant_id, day, quota_day) ==
  IF \/ employee_id \notin DOMAIN employees
     \/ employees[employee_id].is_disabled
     \/ employees[employee_id].is_blocked
  THEN "not_eligible"
  ELSE IF CardHasTransactionForDay(rows, employees[employee_id].card_number, day)
  THEN "daily_limit"
  ELSE IF tenant_id \notin DOMAIN tenants
  THEN "unknown_tenant"
  ELSE IF ~CanOrderForTarget(rows, tenant_id, quota_day)
  THEN "quota_exceeded"
  ELSE IF \E o \in BagToSet(orders) : o.employee_id = employee_id /\ o.order_date = day
  THEN "already_preordered"
  ELSE IF /\ tenants[tenant_id].quota > 0
          /\ tenants[tenant_id].quota - TenantOrdersOnDate(rows, tenant_id, day) <= 0
          /\ PreorderAnyTenantWithRemaining(rows, day)
  THEN "quota_exceeded"
  ELSE "insert"

\* the checks of a pre-order during which the date does not change
PreorderGateOutcome(rows, orders, employee_id, tenant_id, day) ==
  PreorderGateOutcomeAt(rows, orders, employee_id, tenant_id, day, day)

\* the dates a read of the wall clock later in the same handler can give: the
\* date has changed if a midnight has passed since the handler read today
LaterDates(day) == day..(day + midnights)

\* the handler's last read of the wall clock gave the date day
ClockReads(day) ==
  /\ today' = day
  /\ midnights' = midnights - (day - today)

(***************************************************************************)
(* The canteen status: canteen_is_open and what it reads.                  *)
(***************************************************************************)
CANTEEN_OPEN_HOUR == 8
CANTEEN_CLOSE_HOUR == 11

\* canteen_status.mode, CHECK (mode IN ('OPEN','CLOSE','NORMAL'))
CanteenModes == {"OPEN", "CLOSE", "NORMAL"}

\* what read_override() returns: the file's "override" value, "none" for no
\* file; "other" is any value but "open" and "closed"
Overrides == {"none", "open", "closed", "other"}

\* the local times of day around the opening and the closing hour
TimesOfDay ==
  {[hour |-> CANTEEN_OPEN_HOUR - 1, minute |-> 59],
   [hour |-> CANTEEN_OPEN_HOUR, minute |-> 0],
   [hour |-> CANTEEN_CLOSE_HOUR - 1, minute |-> 59],
   [hour |-> CANTEEN_CLOSE_HOUR, minute |-> 0]}

CanteenReadings == [mode : CanteenModes, override : Overrides, time : TimesOfDay]

\* datetime.time comparison a <= b
TimeLeq(a, b) == a.hour < b.hour \/ (a.hour = b.hour /\ a.minute <= b.minute)

\* operational hours that include the closing time itself
IsWithinHoursThroughClose(open_hour, close_hour, now) ==
  /\ TimeLeq([hour |-> open_hour, minute |-> 0], now)
  /\ TimeLeq(now, [hour |-> close_hour, minute |-> 0])

\* is_within_operational_hours: start_time <= current_time < end_time
IsWithinOperationalHours(open_hour, close_hour, now) ==
  /\ TimeLeq([hour |-> open_hour, minute |-> 0], now)
  /\ ~TimeLeq([hour |-> close_hour, minute |-> 0], now)

\* _normalize_canteen_mode: a value that is no mode reads as NORMAL
NormalizeCanteenMode(raw_value) ==
  IF raw_value \in CanteenModes THEN raw_value ELSE "NORMAL"

\* get_effective_canteen_mode: the override file first, then the stored mode
GetEffectiveCanteenMode(reading) ==
  IF reading.override = "open" THEN "OPEN"
  ELSE IF reading.override = "closed" THEN "CLOSE"
  ELSE NormalizeCanteenMode(reading.mode)

\* canteen_is_open(now)
CanteenIsOpen(reading) ==
  LET mode == GetEffectiveCanteenMode(reading)
  IN  IF mode = "OPEN" THEN TRUE
      ELSE IF mode = "CLOSE" THEN FALSE
      ELSE IsWithinOperationalHours(CANTEEN_OPEN_HOUR, CANTEEN_CLOSE_HOUR, reading.time)

\* canteen_is_open() is false: refused with 403 before any connection is made
PreClosed(p) ==
  /\ At(p, "idle")
  /\ \E reading \in CanteenReadings : ~CanteenIsOpen(reading)
  /\ Finish(p, Response("preorder", 403, "error", "canteen_closed"))
  /\ UNCHANGED <<lookups, store>>

\* the request arrives while the canteen is open; BEGIN IMMEDIATE takes the
\* write lock, the checks and the two INSERTs follow inside the transaction.
\* An IntegrityError of the INSERT is caught by "except Exception": 500.
PreAdmit(p) ==
  /\ At(p, "idle")
  /\ \E reading \in CanteenReadings : CanteenIsOpen(reading)
  /\ lock = 0
  /\ UNCHANGED <<config, transactions, preorders>>
  /\ \E employee_id \in EmployeeInputs, tenant_id \in TenantInputs,
        quota_day \in LaterDates(today), order_day \in LaterDates(today) :
       LET rows == VisibleTx(p)
           outcome == PreorderGateOutcomeAt(rows, VisiblePre(p), employee_id, tenant_id,
                                            today, quota_day)
       IN  /\ quota_day <= order_day
           /\ ClockReads(order_day)
           /\ IF outcome # "insert"
              THEN /\ lock' = 0
                   /\ Finish(p, Response("preorder",
                                         IF outcome = "unknown_tenant" THEN 404 ELSE 400,
                                         "error", outcome))
              ELSE LET card_number == employees[employee_id].card_number
                       order_count_today == TenantOrdersOnDate(rows, tenant_id, today) + 1
                       order == [employee_id |-> employee_id, tenant_id |-> tenant_id,
                                 order_date |-> today,
                                 ticket_number |-> order_count_today,
                                 queue_number |->
                                   PreorderQueueNumber(tenants[tenant_id].quota, order_count_today)]
                       row == TransactionRow(card_number, tenant_id, order_day, today)
                   IN  IF ViolatesCardDayIndex(rows, row)
                       THEN /\ lock' = 0
                            /\ Finish(p, Response("preorder", 500, "error", "internal_error"))
                       ELSE /\ TakeWriteLock(p)
                            /\ Continue(p, "pre_commit",
                                        [kind |-> "preorder", who |-> employee_id,
                                         tenant_id |-> tenant_id],
                                        [NoLoc EXCEPT
                                           !.card_number = card_number,
                                           !.quota = tenants[tenant_id].quota,
                                           !.transaction_day = today,
                                           !.order_count = order_count_today,
                                           !.quota_day = quota_day],
                                        [tx |-> SetToBag({row}), pre |-> SetToBag({order})])

\* the lock is held elsewhere for the whole busy timeout: OperationalError,
\* caught by "except Exception", status 500
PreBusy(p) ==
  /\ At(p, "idle")
  /\ \E reading \in CanteenReadings : CanteenIsOpen(reading)
  /\ lock # 0
  /\ Rollback(p)
  /\ Finish(p, Response("preorder", 500, "error", "internal_error"))
  /\ UNCHANGED lookups

\* conn.commit(), the notifier is told, the e-mails are queued, and the 201
\* response with the ticket and the queue number
PreCommit(p) ==
  /\ At(p, "pre_commit")
  /\ Commit(p)
  /\ TriggerSse(SsePayload(req[p].tenant_id, req[p].who, NoTapId))
  /\ AddMailTasks(p, req[p].who)
  /\ Return(p, [Response("preorder", 201, "created", "ok") EXCEPT
                  !.queue_number = PreorderQueueNumber(loc[p].quota, loc[p].order_count),
                  !.ticket_number = loc[p].order_count])
  /\ UNCHANGED lookups

\* any other error inside the transaction: rollback, status 500
PreStorageError(p) ==
  /\ At(p, "pre_commit")
  /\ Rollback(p)
  /\ Finish(p, Response("preorder", 500, "error", "internal_error"))
  /\ UNCHANGED lookups

(***************************************************************************)
(* POST /transaction: create_transaction.                                  *)
(***************************************************************************)
\* create_transaction up to the INSERT: employee and tenant lookups, the
\* timestamp, the duplicate check; all reads, no transaction is open
CreateLookupOutcome(rows, employee_id, tenant_id, ts) ==
  IF employee_id \notin DOMAIN employees THEN "unknown_employee"
  ELSE IF tenant_id \notin DOMAIN tenants THEN "unknown_tenant"
  ELSE IF ts.form = "invalid" THEN "invalid_timestamp"
  ELSE IF CardHasTransactionForDay(rows, employees[employee_id].card_number,
                                   NormalizeTimestampDay(ts))
  THEN "daily_limit"
  ELSE "insert"

CreateStart(p) ==
  /\ At(p, "idle")
  /\ UNCHANGED <<lookups, store>>
  /\ \E employee_id \in CreateEmployeeInputs, tenant_id \in TenantInputs :
     \E ts \in CreateTimestampInputs(employee_id) :
       LET outcome == CreateLookupOutcome(VisibleTx(p), employee_id, tenant_id, ts) IN
       IF outcome # "insert"
       THEN Finish(p, Response("create",
                               CASE outcome = "invalid_timestamp" -> 400
                                 [] outcome = "daily_limit" -> 409
                                 [] OTHER -> 404,
                               "error", outcome))
       ELSE Continue(p, "create_insert",
                     [kind |-> "create", who |-> employee_id, tenant_id |-> tenant_id],
                     [NoLoc EXCEPT !.card_number = employees[employee_id].card_number,
                                   !.transaction_day = NormalizeTimestampDay(ts)],
                     NoRows)

\* INSERT INTO transactions opens a transaction and takes the write lock; a
\* violation of the unique index is answered 409 after a rollback
CreateInsert(p) ==
  /\ At(p, "create_insert")
  /\ lock = 0
  /\ UNCHANGED <<lookups, transactions, preorders>>
  /\ LET day == loc[p].transaction_day
         row == TransactionRow(loc[p].card_number, req[p].tenant_id, day, day)
     IN  IF ViolatesCardDayIndex(VisibleTx(p), row)
         THEN /\ lock' = 0
              /\ Finish(p, Response("create", 409, "error", "daily_limit"))
         ELSE /\ TakeWriteLock(p)
              /\ Continue(p, "create_commit", req[p], loc[p],
                          [NoRows EXCEPT !.tx = SetToBag({row})])

\* the INSERT cannot take the write lock within the busy timeout: status 500
CreateBusy(p) ==
  /\ At(p, "create_insert")
  /\ lock # 0
  /\ Rollback(p)
  /\ Finish(p, Response("create", 500, "error", "internal_error"))
  /\ UNCHANGED lookups

\* conn.commit(), the notifier is told, and the 201 response
CreateCommit(p) ==
  /\ At(p, "create_commit")
  /\ Commit(p)
  /\ TriggerSse(SsePayload(req[p].tenant_id, req[p].who, NoTapId))
  /\ background_tasks' = NoTasks
  /\ Return(p, Response("create", 201, "created", "ok"))
  /\ UNCHANGED lookups

\* any other error inside the transaction: rollback, status 500
CreateStorageError(p) ==
  /\ At(p, "create_commit")
  /\ Rollback(p)
  /\ Finish(p, Response("create", 500, "error", "internal_error"))
  /\ UNCHANGED lookups

(***************************************************************************)
(* Specifications.                                                         *)
(***************************************************************************)
(***************************************************************************)
(* PUT /transaction/{transaction_id}/update: update_transaction.           *)
(***************************************************************************)
\* the fields of a TransactionUpdateRequest; "none" and 0 for a field not set
UpdateEmployeeFields == {"none"} \cup CreateEmployeeInputs
UpdateTenantFields == {0} \cup TenantInputs
UpdateDateFields == {0} \cup Days

\* update_fields applied to a row: the card number of the employee, the
\* tenant id and transaction_date as sent; transaction_day is not a field
UpdatedRow(row, employee_id, tenant_id, transaction_date) ==
  [row EXCEPT
     !.card_number = IF employee_id = "none" THEN @ ELSE employees[employee_id].card_number,
     !.tenant_id = IF tenant_id = 0 THEN @ ELSE tenant_id,
     !.transaction_date = IF transaction_date = 0 THEN @ ELSE transaction_date]

\* the whole handler for the id of a row of the ledger: the lookups, the
\* UPDATE in its implicit transaction, the commit; any sqlite3 error (the lock
\* held elsewhere, the unique index) is rolled back and answered 500
UpdateTransaction(p) ==
  /\ At(p, "idle")
  /\ UNCHANGED <<lookups, preorders, lock>>
  /\ \E row \in BagToSet(transactions), employee_id \in UpdateEmployeeFields,
        tenant_id \in UpdateTenantFields, transaction_date \in UpdateDateFields :
       LET others == transactions (-) SetToBag({row})
           updated == UpdatedRow(row, employee_id, tenant_id, transaction_date)
       IN  IF employee_id = "none" /\ tenant_id = 0 /\ transaction_date = 0
           THEN /\ Finish(p, Response("update", 400, "error", "no_fields"))
                /\ UNCHANGED transactions
           ELSE IF employee_id \notin DOMAIN employees \cup {"none"}
           THEN /\ Finish(p, Response("update", 404, "error", "unknown_employee"))
                /\ UNCHANGED transactions
           ELSE IF tenant_id \notin DOMAIN tenants \cup {0}
           THEN /\ Finish(p, Response("update", 404, "error", "unknown_tenant"))
                /\ UNCHANGED transactions
           ELSE IF lock # 0 \/ ViolatesCardDayIndex(others, updated)
           THEN /\ Finish(p, Response("update", 500, "error", "internal_error"))
                /\ UNCHANGED transactions
           ELSE /\ Finish(p, Response("update", 200, "ok", "ok"))
                /\ transactions' = others (+) SetToBag({updated})

(***************************************************************************)
(* PUT /employee/{employee_id}/update: update_employee.                    *)
(***************************************************************************)
\* the whole handler for a request that sets isDisabled: the SELECT, the
\* UPDATE in its implicit transaction, the commit.  The 404 for a missing
\* employee is raised inside the try and caught by "except Exception", as is
\* the lock timeout: both are answered 500
UpdateEmployee(p) ==
  /\ At(p, "idle")
  /\ UNCHANGED <<tenants, today, midnights, main_event_loop, raw_ts, local_dt, store,
                 gate_and_streams>>
  /\ \E employee_id \in EmployeeInputs, is_disabled \in BOOLEAN :
       IF employee_id \notin DOMAIN employees \/ lock # 0
       THEN /\ Finish(p, Response("update_employee", 500, "error", "internal_error"))
            /\ UNCHANGED employees
       ELSE /\ Finish(p, Response("update_employee", 200, "ok", "ok"))
            /\ employees' = [employees EXCEPT ![employee_id].is_disabled = is_disabled]

(***************************************************************************)
(* The wall clock.                                                         *)
(***************************************************************************)
\* midnight passes between two steps of the handlers
MidnightPasses ==
  /\ midnights > 0
  /\ today' = today + 1
  /\ midnights' = midnights - 1
  /\ UNCHANGED <<config, store, pc, req, loc, uncommitted, response, sse_event,
                 background_tasks>>

\* uvicorn writes the returned response to the client's socket; the queued
\* background tasks run after that (send_order_confirmation)
SendResponse ==
  /\ response # NoResponse
  /\ response' = NoResponse
  /\ sse_event' = NoSseEvent
  /\ background_tasks' = NoTasks
  /\ UNCHANGED <<lookups, store, pc, req, loc, uncommitted>>

\* the steps of one handler that do not depend on another handler
Handler(p) ==
  \/ TapStart(p) \/ TapAdmit(p) \/ TapCommit(p) \/ TapStorageError(p)
  \/ PreClosed(p) \/ PreAdmit(p) \/ PreCommit(p) \/ PreStorageError(p)
  \/ CreateStart(p) \/ CreateInsert(p) \/ CreateCommit(p) \/ CreateStorageError(p)

\* the lock timeouts, which need another handler holding the write lock
Busy(p) == TapBusy(p) \/ PreBusy(p) \/ CreateBusy(p)

\* Spec: two concurrent handlers of any kind; tenant 1 has the quota of the
\* seeded tenants (seed_dummy_data.py), tenant 2 any quota from 0
ConcurrentTenantTables ==
  {t \in TenantTables : /\ t[1].quota = 1 /\ t[1].is_limited
                        /\ t[2].quota >= 0 /\ t[2].is_limited}

ConcurrentEmps == {"e1", "e2"}

Init == InitWith(ConcurrentEmps, ConcurrentTenantTables, Procs)

Next ==
  \/ SendResponse
  \/ \E p \in Procs : Handler(p) \/ Busy(p)

Spec == Init /\ [][Next]_vars

\* SpecTaps: NumTaps handlers serving taps only; the one eligible card sends no
\* timestamp, so every tap that passes the lookups has the same card and day
TapProcs == 1..NumTaps
TapEmps == {"e2"}

InitTaps == InitWith(TapEmps, ConcurrentTenantTables, TapProcs)

NextTaps ==
  \/ SendResponse
  \/ \E p \in TapProcs :
        TapStart(p) \/ TapAdmit(p) \/ TapBusy(p) \/ TapCommit(p) \/ TapStorageError(p)

SpecTaps == InitTaps /\ [][NextTaps]_vars

\* SpecSeq: one handler serving one request after the other, every tenant table
SeqEmps == {"e1", "e2"}

InitSeq == InitWith(SeqEmps, TenantTables, {1})

NextSeq == SendResponse \/ Handler(1)

SpecSeq == InitSeq /\ [][NextSeq]_vars

\* SpecScenario: one handler serving taps and pre-orders, one after the other,
\* from the state of the design's scenario A: tenant 1 created with quota 2
\* and no row, tenant 2 with quota 5 and one row of today (a tap of e5)
ScenarioTenants ==
  <<[quota |-> 2, is_limited |-> TRUE], [quota |-> 5, is_limited |-> TRUE]>>
ScenarioEmps == {"e2", "e3", "e4", "e5"}

InitScenario ==
  /\ employees = EmployeeTable(ScenarioEmps)
  /\ tenants = ScenarioTenants
  /\ transactions = SetToBag({TransactionRow("e5", 2, 1, 1)})
  /\ preorders = EmptyBag
  /\ lock = 0
  /\ today = 1
  /\ pc = [p \in {1} |-> "idle"]
  /\ req = [p \in {1} |-> NoReq]
  /\ loc = [p \in {1} |-> NoLoc]
  /\ uncommitted = [p \in {1} |-> NoRows]
  /\ response = NoResponse
  /\ main_event_loop = TRUE
  /\ sse_event = NoSseEvent
  /\ background_tasks = NoTasks
  /\ midnights = 0
  /\ raw_ts = <<>>
  /\ local_dt = <<>>
  /\ NoGateNoStreams

NextScenario ==
  \/ SendResponse
  \/ TapStart(1) \/ TapAdmit(1) \/ TapCommit(1) \/ TapStorageError(1)
  \/ PreClosed(1) \/ PreAdmit(1) \/ PreCommit(1) \/ PreStorageError(1)

SpecScenario == InitScenario /\ [][NextScenario]_vars

\* SpecInsertFault: two handlers serving taps over a store that may refuse an
\* INSERT with an IntegrityError the duplicate guard did not foresee
NextInsertFault ==
  \/ SendResponse
  \/ \E p \in Procs :
        \/ TapStart(p) \/ TapAdmit(p) \/ TapBusy(p) \/ TapCommit(p)
        \/ TapStorageError(p) \/ TapInsertRefused(p)

SpecInsertFault == Init /\ [][NextInsertFault]_vars

\* SpecQuotaState: two concurrent handlers serving taps and quota-state
\* queries, every tenant table
QuotaStateEmps == {"e2", "e3"}

InitQuotaState == InitWith(QuotaStateEmps, TenantTables, Procs)

NextQuotaState ==
  \/ SendResponse
  \/ \E p \in Procs :
        \/ TapStart(p) \/ TapAdmit(p) \/ TapBusy(p) \/ TapCommit(p)
        \/ TapStorageError(p) \/ GetTenantQuotaState(p)

SpecQuotaState == InitQuotaState /\ [][NextQuotaState]_vars

\* SpecClock: one handler serving one request after the other, transaction
\* updates among them, in a period in which midnight passes
ClockEmps == {"e2"}

InitClock ==
  /\ employees = EmployeeTable(ClockEmps)
  /\ tenants \in ConcurrentTenantTables
  /\ transactions = EmptyBag
  /\ preorders = EmptyBag
  /\ lock = 0
  /\ today = 1
  /\ midnights = MaxMidnights
  /\ pc = [p \in {1} |-> "idle"]
  /\ req = [p \in {1} |-> NoReq]
  /\ loc = [p \in {1} |-> NoLoc]
  /\ uncommitted = [p \in {1} |-> NoRows]
  /\ response = NoResponse
  /\ main_event_loop = TRUE
  /\ sse_event = NoSseEvent
  /\ background_tasks = NoTasks
  /\ raw_ts = <<>>
  /\ local_dt = <<>>
  /\ NoGateNoStreams

NextClock == SendResponse \/ MidnightPasses \/ Handler(1) \/ UpdateTransaction(1)

SpecClock == InitClock /\ [][NextClock]_vars

\* SpecTimestamp: _normalize_timestamp_to_local applied to any two raw
\* timestamps; no request is served
InitTimestamp ==
  /\ raw_ts \in RawTimestamps \X RawTimestamps
  /\ local_dt = <<>>
  /\ NoGateNoStreams
  /\ employees = EmployeeTable(ConcurrentEmps)
  /\ tenants = ScenarioTenants
  /\ transactions = EmptyBag
  /\ preorders = EmptyBag
  /\ lock = 0
  /\ today = 1
  /\ midnights = 0
  /\ pc = [p \in Procs |-> "idle"]
  /\ req = [p \in Procs |-> NoReq]
  /\ loc = [p \in Procs |-> NoLoc]
  /\ uncommitted = [p \in Procs |-> NoRows]
  /\ response = NoResponse
  /\ main_event_loop = TRUE
  /\ sse_event = NoSseEvent
  /\ background_tasks = NoTasks

NormalizeBoth ==
  /\ local_dt = <<>>
  /\ local_dt' = <<NormalizeTimestampToLocal(raw_ts[1]), NormalizeTimestampToLocal(raw_ts[2])>>
  /\ UNCHANGED <<employees, tenants, today, midnights, main_event_loop, raw_ts, store,
                 pc, req, loc, uncommitted, response, sse_event, background_tasks,
                 gate_and_streams>>

SpecTimestamp == InitTimestamp /\ [][NormalizeBoth]_vars

\* SpecSlot: two concurrent handlers serving taps and pre-orders
SlotEmps == {"e1", "e2"}

InitSlot == InitWith(SlotEmps, ConcurrentTenantTables, Procs)

NextSlot ==
  \/ SendResponse
  \/ \E p \in Procs :
        \/ TapStart(p) \/ TapAdmit(p) \/ TapBusy(p) \/ TapCommit(p) \/ TapStorageError(p)
        \/ PreClosed(p) \/ PreAdmit(p) \/ PreBusy(p) \/ PreCommit(p) \/ PreStorageError(p)

SpecSlot == InitSlot /\ [][NextSlot]_vars

\* SpecEmployee: two concurrent handlers serving taps and employee updates
EmployeeEmps == {"e2"}

InitEmployee == InitWith(EmployeeEmps, ConcurrentTenantTables, Procs)

NextEmployee ==
  \/ SendResponse
  \/ \E p \in Procs :
        \/ TapStart(p) \/ TapAdmit(p) \/ TapBusy(p) \/ TapCommit(p) \/ TapStorageError(p)
        \/ UpdateEmployee(p)

SpecEmployee == InitEmployee /\ [][NextEmployee]_vars

\* SpecCardless: one handler serving taps and pre-orders, one after the other;
\* two of the employees have no card: their card_number is the empty string
CardlessEmps == {"n1", "n2"}
CardEmps == {"e2"}

InitCardless ==
  /\ employees = [e \in CardEmps \cup CardlessEmps |->
                    [card_number |-> IF e \in CardlessEmps THEN "" ELSE e,
                     is_disabled |-> FALSE, is_blocked |-> FALSE]]
  /\ tenants \in ConcurrentTenantTables
  /\ transactions = EmptyBag
  /\ preorders = EmptyBag
  /\ lock = 0
  /\ today = 1
  /\ midnights = 0
  /\ raw_ts = <<>>
  /\ local_dt = <<>>
  /\ NoGateNoStreams
  /\ pc = [p \in {1} |-> "idle"]
  /\ req = [p \in {1} |-> NoReq]
  /\ loc = [p \in {1} |-> NoLoc]
  /\ uncommitted = [p \in {1} |-> NoRows]
  /\ response = NoResponse
  /\ main_event_loop = TRUE
  /\ sse_event = NoSseEvent
  /\ background_tasks = NoTasks

NextCardless ==
  \/ SendResponse
  \/ TapStart(1) \/ TapAdmit(1) \/ TapCommit(1) \/ TapStorageError(1)
  \/ PreClosed(1) \/ PreAdmit(1) \/ PreCommit(1) \/ PreStorageError(1)

SpecCardless == InitCardless /\ [][NextCardless]_vars

\* SpecRedate: one handler serving taps, quota-state queries and transaction
\* updates, one after the other
RedateEmps == {"e2", "e3"}

InitRedate == InitWith(RedateEmps, ConcurrentTenantTables, {1})

NextRedate ==
  \/ SendResponse
  \/ TapStart(1) \/ TapAdmit(1) \/ TapCommit(1) \/ TapStorageError(1)
  \/ GetTenantQuotaState(1) \/ UpdateTransaction(1)

SpecRedate == InitRedate /\ [][NextRedate]_vars

\* SpecNotify: two concurrent handlers of any kind, in an application whose
\* main_event_loop is set (api.py's lifespan) or is not (the router mounted
\* without it)
NotifyEmps == {"e2", "e3"}

InitNotify == InitWithLoop(NotifyEmps, ConcurrentTenantTables, Procs, BOOLEAN)

SpecNotify == InitNotify /\ [][Next]_vars

(***************************************************************************)
(* Properties.  A property that relates a request to its response is an    *)
(* action property over the step in which the handler returns: response'   *)
(* is the response, the unprimed variables are the state the handler saw.  *)
(***************************************************************************)
\* number of rows with the key (card_number, transaction_day)
EventsIn(rows, card_number, transaction_day) ==
  CountWhere(rows, {r \in BagToSet(rows) :
    r.card_number = card_number /\ r.transaction_day = transaction_day})

\* capacity left at a tenant on a day
Remaining(rows, t, day) == tenants[t].quota - TenantOrdersOnDay(rows, t, day)

\* the design's capacitated tenant: capacity enforced and a capacity above 0
Capacitated(t) == tenants[t].is_limited /\ tenants[t].quota > 0

\* a capacitated tenant other than t has capacity left on the day
OtherHasRoom(rows, t, day) ==
  \E u \in DOMAIN tenants \ {t} : Capacitated(u) /\ Remaining(rows, u, day) > 0

\* handler p's tap is past its lookups and has not returned
TapInFlight(p) == pc[p] \in {"tap_begin", "tap_commit"}

\* handlers p and q work on the same card and day key
SameSlot(p, q) ==
  /\ loc[p].card_number = loc[q].card_number
  /\ loc[p].transaction_day = loc[q].transaction_day

\* C1: in every reachable state the ledger holds at most one row for any
\* pair of card number and day key, whatever taps, pre-orders and direct
\* creates have run and however they interleaved.
C1_OneEventPerCardAndDay ==
  \A r \in BagToSet(transactions) :
    EventsIn(transactions, r.card_number, r.transaction_day) = 1

\* a direct create has passed its duplicate check and waits to insert while
\* another handler's row with the same key is already committed, in a ledger
\* of at least two rows
C1_Witness ==
  \E p \in DOMAIN pc :
    /\ pc[p] = "create_insert"
    /\ EventsIn(transactions, loc[p].card_number, loc[p].transaction_day) = 1
    /\ BagCardinality(transactions) >= 2

\* C2 as stated: of the taps of one card and day that are in flight together,
\* each one that returns (storage failures aside) is accepted or is rejected
\* with duplicate_daily.
C2_OthersAllDuplicateDaily ==
  [][\A p, q \in DOMAIN pc :
       ( /\ p # q /\ TapInFlight(p) /\ TapInFlight(q) /\ SameSlot(p, q)
         /\ pc'[p] = "idle" /\ response'.code # 500 )
       => \/ response'.status = "accepted"
          \/ response'.reason = "duplicate_daily"]_vars

\* C2 amended: of the taps of one card and day that are in flight together, at
\* most one is accepted: never two hold an inserted row, and a tap is accepted
\* only if the ledger had no row of its card and day and now has one.  A tap
\* that takes the write lock when the row is committed is rejected with
\* duplicate_daily; a tap returns db_busy (409) only while another handler
\* holds the write lock; no tap that is not accepted changes the ledger.
C2_AtMostOneAccepted ==
  [][\A p, q \in DOMAIN pc :
       LET card == loc[p].card_number
           day == loc[p].transaction_day
           had == EventsIn(transactions, card, day)
       IN  /\ (p # q /\ SameSlot(p, q)) => ~(pc[p] = "tap_commit" /\ pc[q] = "tap_commit")
           /\ (TapInFlight(p) /\ pc'[p] = "idle") =>
                /\ response'.status = "accepted" =>
                     had = 0 /\ EventsIn(transactions', card, day) = 1
                /\ (pc[p] = "tap_begin" /\ lock = 0 /\ had > 0) =>
                     response'.status = "rejected" /\ response'.reason = "duplicate_daily"
                /\ response'.reason = "db_busy" =>
                     response'.code = 409 /\ lock \notin {0, p}
                /\ response'.status # "accepted" => transactions' = transactions
                /\ response'.reason \in {"ok", "duplicate_daily", "quota_exceeded",
                                         "db_busy", "internal_error"}]_vars

\* three taps of one card and day at once: one holds the write lock with its
\* row inserted, one waits for the lock, and one has just timed out (db_busy)
C2_Witness ==
  \E p, q \in DOMAIN pc :
    /\ p # q /\ pc[p] = "tap_commit" /\ pc[q] = "tap_begin" /\ SameSlot(p, q)
    /\ response.reason = "db_busy"
    /\ response.tap_id.card_number = loc[p].card_number

\* C3: for a tenant with capacity Q > 0, while another capacitated tenant has
\* capacity left: a tap that reaches the quota gate when the tenant holds Q or
\* more rows of the day is rejected with quota_exceeded and adds nothing; no
\* tap and no pre-order inserts a row for the tenant then; and a tap or
\* pre-order that commits leaves the tenant with at most Q rows of the day.
C3_CapacityMonotonic ==
  [][\A p \in DOMAIN pc :
       /\ (pc[p] = "tap_begin" /\ pc'[p] # "tap_begin") =>
            LET t == req[p].tenant_id
                day == loc[p].transaction_day
                full == /\ tenants[t].quota > 0
                        /\ Remaining(transactions, t, day) <= 0
                        /\ OtherHasRoom(transactions, t, day)
            IN  /\ full => pc'[p] # "tap_commit"
                /\ (full /\ lock = 0
                         /\ EventsIn(transactions, loc[p].card_number, day) = 0) =>
                     /\ response'.status = "rejected"
                     /\ response'.reason = "quota_exceeded"
                     /\ transactions' = transactions
       /\ (pc[p] = "idle" /\ pc'[p] = "pre_commit") =>
            LET t == req'[p].tenant_id
                day == loc'[p].transaction_day
            IN  ~ ( /\ tenants[t].quota > 0
                    /\ Remaining(transactions, t, day) <= 0
                    /\ OtherHasRoom(transactions, t, day) )
       /\ (pc[p] \in {"tap_commit", "pre_commit"} /\ transactions' # transactions) =>
            LET t == req[p].tenant_id
                day == loc[p].transaction_day
            IN  (tenants[t].quota > 0 /\ OtherHasRoom(transactions, t, day)) =>
                  TenantOrdersOnDay(transactions', t, day) <= tenants[t].quota]_vars

\* tenant 1 holds exactly its Q rows of today, tenant 2 has capacity left, a
\* tap for tenant 1 has just been rejected with quota_exceeded, and another
\* handler is at work
C3_Witness ==
  /\ response.kind = "tap" /\ response.reason = "quota_exceeded"
  /\ response.tap_id.tenant_id = 1
  /\ TenantOrdersOnDay(transactions, 1, today) = tenants[1].quota
  /\ OtherHasRoom(transactions, 1, today)
  /\ \E q \in DOMAIN pc : pc[q] # "idle"

\* C4: when every capacitated tenant holds at least its capacity in rows of
\* the day, a tap for one of them by a card without a row of that day passes
\* the quota gate and inserts its row; it is not rejected with quota_exceeded.
C4_FreeModeAdmits ==
  [][\A p \in DOMAIN pc :
       LET t == req[p].tenant_id
           day == loc[p].transaction_day
       IN  ( /\ pc[p] = "tap_begin" /\ pc'[p] # "tap_begin" /\ lock = 0
             /\ EventsIn(transactions, loc[p].card_number, day) = 0
             /\ Capacitated(t)
             /\ \A u \in DOMAIN tenants :
                  Capacitated(u) => Remaining(transactions, u, day) <= 0 )
           => pc'[p] = "tap_commit"]_vars

ReferenceAdmits(rows, t, day) ==
  \/ tenants[t].quota = 0
  \/ Remaining(rows, t, day) > 0
  \/ ~ \E u \in DOMAIN tenants : Capacitated(u) /\ Remaining(rows, u, day) > 0

\* C6: for every ledger a tap finds at the quota gate (its card has no row of
\* the day, the target's capacity is 0 or more), the tap goes on to insert
\* exactly when the reference verdict admits, and is rejected otherwise.
C6_GateEqualsReference ==
  [][\A p \in DOMAIN pc :
       LET t == req[p].tenant_id
           day == loc[p].transaction_day
       IN  ( /\ pc[p] = "tap_begin" /\ pc'[p] # "tap_begin" /\ lock = 0
             /\ EventsIn(transactions, loc[p].card_number, day) = 0
             /\ tenants[t].quota >= 0 )
           => (pc'[p] = "tap_commit") = ReferenceAdmits(transactions, t, day)]_vars

\* handler p is between its checks and inserts and its commit
InWriteScope(p) == pc[p] \in {"tap_commit", "pre_commit"}

\* C7: from the step in which a tap or pre-order reads the ledger for its
\* checks and inserts, to its commit, the handler holds the write lock, the
\* outcome of its checks stays what it was, and the committed tables change
\* only by its own commit, which adds exactly the rows it wrote.
C7_ChecksAndInsertInOneWriteScope ==
  [][\A p \in DOMAIN pc :
       InWriteScope(p) =>
         /\ lock = p
         /\ pc[p] = "tap_commit" =>
              TapGateOutcome(transactions, loc[p].card_number, req[p].tenant_id,
                             loc[p].quota, loc[p].transaction_day) = "insert"
         /\ pc[p] = "pre_commit" =>
              PreorderGateOutcome(transactions, preorders, req[p].who, req[p].tenant_id,
                                  loc[p].transaction_day) = "insert"
         /\ \/ transactions' = transactions /\ preorders' = preorders
            \/ /\ pc'[p] = "idle"
               /\ transactions' = transactions (+) uncommitted[p].tx
               /\ preorders' = preorders (+) uncommitted[p].pre]_vars

\* a pre-order holds the write lock with its rows inserted while a tap of the
\* same card and day waits at BEGIN IMMEDIATE
C7_Witness ==
  \E p, q \in DOMAIN pc :
    /\ p # q /\ pc[p] = "pre_commit" /\ lock = p /\ pc[q] = "tap_begin"
    /\ SameSlot(p, q)
    /\ BagCardinality(uncommitted[p].tx) = 1

\* C8: every step that commits a ledger row, the direct create's included, is
\* taken with the write lock held since the duplicate check, and the quota
\* verdict over the ledger it adds to admits the row.
C8_EveryInsertQuotaChecked ==
  [][\A p \in DOMAIN pc :
       ( /\ pc[p] \in {"tap_commit", "pre_commit", "create_commit"}
         /\ transactions' # transactions )
       => /\ lock = p
          /\ ~TapQuotaRejects(transactions, req[p].tenant_id,
                              tenants[req[p].tenant_id].quota,
                              loc[p].transaction_day)]_vars

C10_FirstFailingGate ==
  [][/\ (response'.kind = "tap" /\ response'.code = 200) =>
          LET card == response'.tap_id.card_number
              t == response'.tap_id.tenant_id
          IN  /\ (response'.reason = "unknown_card") = CardRejected(card)
              /\ (response'.reason = "unknown_tenant") =
                   (~CardRejected(card) /\ t \notin DOMAIN tenants)
     /\ \A p \in DOMAIN pc :
          (pc[p] = "tap_begin" /\ pc'[p] # "tap_begin" /\ lock = 0) =>
            LET dup == EventsIn(transactions, loc[p].card_number,
                                loc[p].transaction_day) > 0
            IN  /\ dup = (response'.reason = "duplicate_daily")
                /\ dup => response'.status = "rejected"
                /\ response'.reason = "quota_exceeded" =>
                     /\ response'.status = "rejected"
                     /\ Remaining(transactions, req[p].tenant_id,
                                  loc[p].transaction_day) <= 0]_vars

\* a card with a row of today has tapped for a tenant whose quota verdict
\* would reject, and was rejected with duplicate_daily
C10_Witness ==
  /\ response.kind = "tap" /\ response.reason = "duplicate_daily"
  /\ response.tap_id.tenant_id \in DOMAIN tenants
  /\ EventsIn(transactions, response.tap_id.card_number, today) = 1
  /\ TapQuotaRejects(transactions, response.tap_id.tenant_id,
                     tenants[response.tap_id.tenant_id].quota, today)

\* the employees in good standing whose card has no ledger row of the day
EligibleWithoutEvent(day) ==
  {e \in DOMAIN employees :
     /\ ~employees[e].is_disabled /\ ~employees[e].is_blocked
     /\ ~CardHasTransactionForDay(transactions, employees[e].card_number, day)}

\* C11: in every reachable state, for every day, an eligible card without a
\* row of that day passes the tap's duplicate guard and quota verdict at some
\* tenant: the verdict never rejects every tenant at once.  The same holds
\* for the checks of a pre-order placed today.
C11_SomeTenantAdmits ==
  /\ \A day \in Days : \E t \in DOMAIN tenants :
       /\ ~TapQuotaRejects(transactions, t, tenants[t].quota, day)
       /\ \A e \in EligibleWithoutEvent(day) :
            TapGateOutcome(transactions, employees[e].card_number, t,
                           tenants[t].quota, day) = "insert"
  /\ \E t \in DOMAIN tenants :
       /\ CanOrderForTarget(transactions, t, today)
       /\ \A e \in EligibleWithoutEvent(today) :
            PreorderGateOutcome(transactions, preorders, e, t, today) = "insert"

\* the quota verdict rejects one tenant today (it is full while another
\* tenant has room) and an eligible card still has no row of today
C11_Witness ==
  /\ \E t \in DOMAIN tenants :
       TapQuotaRejects(transactions, t, tenants[t].quota, today)
  /\ \E t \in DOMAIN tenants : ~CanOrderForTarget(transactions, t, today)
  /\ EligibleWithoutEvent(today) # {}

PreorderCreated(p) ==
  pc[p] = "pre_commit" /\ pc'[p] = "idle" /\ response'.code = 201

\* C13 as stated: for a tenant with quota Q > 0, the queue number of a created
\* pre-order is Q - N, N the tenant's rows of the day with the new one.
C13_QueueIsQMinusN ==
  [][\A p \in DOMAIN pc :
       (PreorderCreated(p) /\ tenants[req[p].tenant_id].quota > 0) =>
         response'.queue_number =
           tenants[req[p].tenant_id].quota
             - TenantOrdersOnDay(transactions', req[p].tenant_id, today)]_vars

\* C13 amended: for a tenant with quota Q > 0, the queue number of a created
\* pre-order is Q - N + 1 while N <= Q (it counts down from Q to 1) and Q - N,
\* a negative number, once N > Q; it is never 0.
C13_QueueCountsDownToOne ==
  [][\A p \in DOMAIN pc :
       (PreorderCreated(p) /\ tenants[req[p].tenant_id].quota > 0) =>
         LET Q == tenants[req[p].tenant_id].quota
             N == TenantOrdersOnDay(transactions', req[p].tenant_id, today)
         IN  /\ response'.queue_number = IF N <= Q THEN Q - N + 1 ELSE Q - N
             /\ response'.queue_number # 0
             /\ N = TenantOrdersOnDay(transactions, req[p].tenant_id, today) + 1]_vars

\* a pre-order admitted in free mode as the second row of a tenant of quota 1
\* has been created with queue number -1
C13_Witness ==
  /\ response.kind = "preorder" /\ response.code = 201
  /\ response.queue_number = -1 /\ response.ticket_number = 2
  /\ \E t \in DOMAIN tenants :
       tenants[t].quota = 1 /\ TenantOrdersOnDay(transactions, t, today) = 2

\* C14: for a tenant with quota 0, the queue number of a created pre-order is
\* N, the tenant's rows of the day with the new one.
C14_UncappedQueueIsN ==
  [][\A p \in DOMAIN pc :
       (PreorderCreated(p) /\ tenants[req[p].tenant_id].quota = 0) =>
         response'.queue_number =
           TenantOrdersOnDay(transactions', req[p].tenant_id, today)]_vars

\* C15: a tap whose timestamp cannot be parsed is answered with the 400
\* validation error whatever its card and tenant, known or not; the step that
\* answers it is the handler's first, it leaves ledger, pre-orders and write
\* lock as they are, and the handler has requested no transaction.
C15_InvalidTimestampFailsFirst ==
  [][/\ \A card \in EmployeeInputs, tenant_id \in TenantInputs :
          TapLookupOutcome(card, tenant_id, InvalidTs) = "invalid_timestamp"
     /\ (response'.kind = "tap" /\ response'.reason = "invalid_timestamp") =>
          /\ response'.code = 400 /\ response'.status = "error"
          /\ UNCHANGED store
          /\ pc' = pc /\ uncommitted' = uncommitted
          /\ \E p \in DOMAIN pc : pc[p] = "idle" /\ uncommitted[p] = NoRows
     /\ (response'.kind = "tap" /\ response'.code = 400) =>
          response'.reason = "invalid_timestamp"]_vars

\* a tap with an unparsable timestamp has been refused while another handler
\* holds the write lock with a row inserted, and the ledger is still empty
C15_Witness ==
  /\ response.kind = "tap" /\ response.reason = "invalid_timestamp"
  /\ lock # 0 /\ uncommitted[lock].tx # EmptyBag
  /\ transactions = EmptyBag

\* C16: a tap that leaves BEGIN IMMEDIATE while another handler holds the
\* write lock is answered 409, rejected, db_busy; it has written no row, the
\* ledger, the pre-orders and the holder's lock are as before, and the handler
\* is done (it does not go back to BEGIN IMMEDIATE).  db_busy is given for no
\* other reason.
C16_LockTimeoutIsDbBusy ==
  [][\A p \in DOMAIN pc :
       /\ (pc[p] = "tap_begin" /\ lock # 0 /\ pc'[p] # "tap_begin") =>
            /\ response'.kind = "tap" /\ response'.code = 409
            /\ response'.status = "rejected" /\ response'.reason = "db_busy"
            /\ response'.tap_id = TapId(req[p].who, req[p].tenant_id)
            /\ UNCHANGED store
            /\ pc'[p] = "idle" /\ req'[p] = NoReq /\ uncommitted'[p] = NoRows
       /\ (response'.reason = "db_busy" /\ pc[p] # pc'[p]) =>
            pc[p] = "tap_begin" /\ lock \notin {0, p}]_vars

\* a tap has been answered db_busy while a pre-order holds the write lock
\* with its rows inserted and not committed
C16_Witness ==
  /\ response.kind = "tap" /\ response.code = 409 /\ response.reason = "db_busy"
  /\ lock # 0 /\ pc[lock] = "pre_commit"
  /\ uncommitted[lock].pre # EmptyBag
  /\ transactions = EmptyBag

\* C17: a pre-order that arrives while the canteen is open and cannot take
\* the write lock, because another handler holds it for the whole wait, is
\* answered with the db_busy conflict (409) a tap gets, not with an internal
\* error.
C17_PreorderLockTimeoutIsDbBusy ==
  [][( /\ response'.kind = "preorder" /\ response'.reason # "canteen_closed"
       /\ lock # 0 /\ pc' = pc )
     => response'.code = 409 /\ response'.reason = "db_busy"]_vars

\* handler p's tap passes the duplicate guard and the quota verdict in this
\* step and its INSERT raises an IntegrityError
InsertRaises(p) ==
  /\ pc[p] = "tap_begin" /\ lock = 0 /\ pc'[p] = "idle"
  /\ TapGateOutcome(transactions, loc[p].card_number, req[p].tenant_id,
                    loc[p].quota, loc[p].transaction_day) = "insert"

\* C18: a uniqueness violation raised by a tap's INSERT is answered rejected,
\* duplicate_daily with status 200, never with an error status; whatever
\* IntegrityError the INSERT raises, the transaction is rolled back: no row is
\* added, the write lock is free again and the handler is done.
C18_UniqueViolationIsDuplicateDaily ==
  [][\A p \in DOMAIN pc :
       LET tap_id == TapId(req[p].who, req[p].tenant_id)
       IN  /\ \A error \in IntegrityErrors :
                error.unique =>
                  TapIntegrityErrorResponse(tap_id, error) =
                    TapResponse(tap_id, 200, "rejected", "duplicate_daily")
           /\ TapIntegrityErrorResponse(tap_id, UniqueViolation).code = 200
           /\ InsertRaises(p) =>
                /\ \E error \in IntegrityErrors :
                     response' = TapIntegrityErrorResponse(tap_id, error)
                /\ transactions' = transactions /\ preorders' = preorders
                /\ lock' = 0 /\ uncommitted'[p] = NoRows]_vars

\* a tap has been answered duplicate_daily although the ledger is empty: the
\* answer comes from the INSERT's uniqueness violation, and nothing was kept
C18_Witness ==
  /\ response.kind = "tap" /\ response.status = "rejected"
  /\ response.reason = "duplicate_daily"
  /\ transactions = EmptyBag /\ lock = 0
  /\ \A p \in DOMAIN pc : uncommitted[p] = NoRows

\* C19: a tap for a card that is missing, disabled or blocked is rejected with
\* unknown_card, and a tap for a card in good standing with a missing tenant
\* with unknown_tenant; such a tap returns in its first step, without having
\* asked for the write lock, and leaves ledger, pre-orders and lock as they
\* are, whoever holds the lock; a tap that goes on to BEGIN IMMEDIATE has a
\* card in good standing and an existing tenant.
C19_UnknownCardOrTenant ==
  [][/\ \A card \in {MissingEmp, DisabledEmp, BlockedEmp} : CardRejected(card)
     /\ \A p \in DOMAIN pc :
          pc[p] \in {"tap_begin", "tap_commit"} =>
            ~CardRejected(loc[p].card_number) /\ req[p].tenant_id \in DOMAIN tenants
     /\ (response'.kind = "tap" /\ response'.tap_id # NoTapId /\ pc' = pc) =>
          LET card == response'.tap_id.card_number
              t == response'.tap_id.tenant_id
          IN  /\ response'.code = 200 /\ response'.status = "rejected"
              /\ response'.reason =
                   IF CardRejected(card) THEN "unknown_card" ELSE "unknown_tenant"
              /\ CardRejected(card) \/ t \notin DOMAIN tenants
              /\ UNCHANGED store
              /\ uncommitted' = uncommitted
     /\ (response'.kind = "tap" /\ response'.reason \in {"unknown_card", "unknown_tenant"})
          => pc' = pc /\ UNCHANGED store]_vars

\* the tap of a blocked card has been rejected with unknown_card while
\* another handler holds the write lock with a row inserted
C19_Witness ==
  /\ response.kind = "tap" /\ response.reason = "unknown_card"
  /\ response.tap_id.card_number = BlockedEmp
  /\ lock # 0 /\ uncommitted[lock].tx # EmptyBag

\* handler p commits in this step
Commits(p) ==
  /\ pc[p] \in {"tap_commit", "pre_commit", "create_commit"}
  /\ pc'[p] = "idle"
  /\ response'.code \in {200, 201}

\* the response of a committing handler, from its request and locals alone
CommitResponse(p) ==
  CASE pc[p] = "tap_commit" ->
         TapResponse(TapId(req[p].who, req[p].tenant_id), 200, "accepted", "ok")
    [] pc[p] = "pre_commit" ->
         [Response("preorder", 201, "created", "ok") EXCEPT
            !.queue_number = PreorderQueueNumber(loc[p].quota, loc[p].order_count),
            !.ticket_number = loc[p].order_count]
    [] OTHER -> Response("create", 201, "created", "ok")

CallsOut == sse_event' # NoSseEvent \/ background_tasks'.recipients # {}

TapExits(p) == TapInFlight(p) /\ pc'[p] = "idle"

\* C22: a tap that ends, by commit or by any rejection or error, leaves the
\* write lock free if it held it, and changes the ledger only when it is
\* accepted; no handler that is done holds the lock, so that whenever every
\* handler is done the lock is free for the next attempt.
C22_TapReleasesWriteScope ==
  [][/\ \A p \in DOMAIN pc :
          TapExits(p) =>
            /\ lock = p => lock' = 0
            /\ lock' # p
            /\ response'.status # "accepted" => transactions' = transactions
     /\ \A p \in DOMAIN pc : pc'[p] = "idle" => lock' # p
     /\ (\A p \in DOMAIN pc : pc'[p] = "idle") => lock' = 0]_vars

\* a tap that held the write lock has ended with a storage error: its row is
\* not in the ledger, the lock is free and the other handler's tap is waiting
\* to begin its transaction
C22_Witness ==
  /\ response.kind = "tap" /\ response.code = 500
  /\ lock = 0
  /\ transactions = EmptyBag
  /\ \E p, q \in DOMAIN pc : pc[p] = "idle" /\ pc[q] = "tap_begin"

\* the response of this step is a quota-state result
QuotaStateAnswered == response'.kind = "quota_state"

\* C23: a step that answers a quota-state query changes no table, not the
\* write lock, no open transaction and no handler's position, whatever the
\* other handler is doing; the ledger's count of any tenant and day is the
\* same before and after.
C23_QuotaStateChangesNothing ==
  [][QuotaStateAnswered =>
       /\ UNCHANGED <<transactions, preorders, tenants, employees>>
       /\ UNCHANGED <<lock, uncommitted, pc, loc, req>>
       /\ \A t \in DOMAIN tenants :
            TenantOrdersOnDay(transactions', t, today) =
              TenantOrdersOnDay(transactions, t, today)]_vars

\* a quota-state query has been answered while the other handler holds the
\* write lock with a row not yet committed
C23_Witness ==
  /\ response.kind = "quota_state" /\ response.code = 200
  /\ lock # 0 /\ pc[lock] = "tap_commit"
  /\ uncommitted[lock].tx # EmptyBag

\* the design's occupancy: the tenant's rows with the day key of the day
Occupancy(rows, t, day) == TenantOrdersOnDay(rows, t, day)

\* the design's quota-state result for a target, from the capacitated tenants
ReferenceMaxRemaining(rows, day) ==
  SetMax({Remaining(rows, u, day) : u \in {v \in DOMAIN tenants : Capacitated(v)}})

\* C24: in a quota-state result, max_remaining_any is the largest capacity
\* left among the capacitated tenants (capacity enforced, capacity above 0),
\* remaining_for_target of a capacitated target is its capacity less its rows
\* of the day, and is_free_mode holds exactly when there is a capacitated
\* tenant and max_remaining_any is at most 0.
C24_QuotaStateResult ==
  [][(QuotaStateAnswered /\ response'.code = 200) =>
       LET r == response'.quota_state
           capacitated == {v \in DOMAIN tenants : Capacitated(v)}
       IN  /\ capacitated # {} =>
                r.max_remaining_any = ReferenceMaxRemaining(transactions, today)
           /\ Capacitated(r.tenant_id) =>
                r.remaining_for_target =
                  {tenants[r.tenant_id].quota - Occupancy(transactions, r.tenant_id, today)}
           /\ r.is_free_mode = (capacitated # {} /\ r.max_remaining_any <= 0)]_vars

\* every capacitated tenant is full on the day, and a tenant that is not
\* enforced has a capacity above 0 that is not used up
FullButForNonEnforced(rows, day) ==
  /\ \E u \in DOMAIN tenants : Capacitated(u)
  /\ \A u \in DOMAIN tenants : Capacitated(u) => Remaining(rows, u, day) <= 0
  /\ \E u \in DOMAIN tenants :
       ~tenants[u].is_limited /\ tenants[u].quota > 0 /\ Remaining(rows, u, day) > 0

\* C25: a tenant whose capacity is not enforced does not prevent free mode:
\* when every capacitated tenant is full and a non-enforced tenant has unused
\* capacity, a quota-state query reports free mode and lets a capacitated
\* target order, and a tap for a capacitated tenant by a card without a row of
\* the day passes the quota gate.
C25_NonEnforcedNeverPreventsFreeMode ==
  [][/\ ( /\ QuotaStateAnswered /\ response'.code = 200
          /\ FullButForNonEnforced(transactions, today) )
        => /\ response'.quota_state.is_free_mode
           /\ Capacitated(response'.quota_state.tenant_id) =>
                response'.quota_state.can_order_for_target
     /\ \A p \in DOMAIN pc :
          ( /\ pc[p] = "tap_begin" /\ pc'[p] # "tap_begin" /\ lock = 0
            /\ FullButForNonEnforced(transactions, loc[p].transaction_day)
            /\ Capacitated(req[p].tenant_id)
            /\ EventsIn(transactions, loc[p].card_number, loc[p].transaction_day) = 0 )
          => response'.reason # "quota_exceeded"]_vars

\* handler p's attempt passes its checks and writes its row in this step
WritesRow(p) ==
  \/ pc[p] = "tap_begin" /\ pc'[p] = "tap_commit"
  \/ pc[p] = "idle" /\ pc'[p] = "pre_commit"

\* C26: an attempt that passes its checks has used one day key for all of
\* them: the day of the quota evaluation is the day of the duplicate guard,
\* the row written carries that day key, and for a request without timestamp
\* it is the date at which the attempt began, whatever the clock does after.
C26_OneDayKeyPerAttempt ==
  [][\A p \in DOMAIN pc :
       WritesRow(p) =>
         /\ loc'[p].quota_day = loc'[p].transaction_day
         /\ \A row \in BagToSet(uncommitted'[p].tx) :
              row.transaction_day = loc'[p].transaction_day
         /\ ~CardHasTransactionForDay(transactions, loc'[p].card_number,
                                      loc'[p].transaction_day)
         /\ pc[p] = "idle" => loc'[p].transaction_day = today]_vars

\* C27: every row of the ledger has the day key that is the date of its
\* timestamp.
C27_DayKeyIsDateOfTimestamp ==
  \A row \in BagToSet(transactions) : row.transaction_day = row.transaction_date

\* the instant a raw timestamp denotes, in hours of UTC: the date and time as
\* written less the offset written, and less the local offset when none is
Instant(raw) ==
  IF raw.offset = {} THEN raw.wall - LocalOffset
  ELSE raw.wall - (CHOOSE h \in raw.offset : TRUE)

\* instant i lies in day D of the local zone: from 00:00 local of day D to
\* 00:00 local of the next day, the latter excluded
InLocalDay(i, D) == 24 * D - LocalOffset <= i /\ i < 24 * (D + 1) - LocalOffset

\* C28: two raw timestamps that denote the same instant get the same day key
\* whatever offsets they are written with; a timestamp without offset gets
\* the date it is written with; and the day key of a timestamp is D exactly
\* when its instant lies in local day D.
C28_DayKeyAfterConversion ==
  local_dt # <<>> =>
    /\ Instant(raw_ts[1]) = Instant(raw_ts[2]) => local_dt[1].day = local_dt[2].day
    /\ \A k \in {1, 2} :
         /\ raw_ts[k].offset = {} =>
              /\ local_dt[k].local = raw_ts[k].wall
              /\ local_dt[k].day = raw_ts[k].wall \div 24
         /\ \A D \in -1..(MaxDay + 1) :
              (local_dt[k].day = D) <=> InLocalDay(Instant(raw_ts[k]), D)

\* the same instant written with two offsets that put the dates as written on
\* different days, and normalised to one day key
C28_Witness ==
  /\ local_dt # <<>>
  /\ Instant(raw_ts[1]) = Instant(raw_ts[2])
  /\ raw_ts[1].offset = {0} /\ raw_ts[2].offset = {}
  /\ raw_ts[1].wall \div 24 # raw_ts[2].wall \div 24
  /\ local_dt[1].day = local_dt[2].day

\* employees in good standing whose card has a row of the day in the ledger
HasUsedSlot(e, day) ==
  /\ ~employees[e].is_disabled /\ ~employees[e].is_blocked
  /\ EventsIn(transactions, employees[e].card_number, day) >= 1

\* C29: tap and pre-order share the card's slot of the day.  A tap that gets
\* the write lock while the ledger has a row of its card and day, written by a
\* tap or by a pre-order, is rejected duplicate_daily and writes nothing; a
\* pre-order for an employee whose card has a row of today fails the
\* daily-limit check whatever the tenant; and a tap or pre-order that commits
\* leaves exactly one row of its card and day.
C29_TapAndPreorderShareSlot ==
  [][/\ \A p \in DOMAIN pc :
          /\ ( /\ pc[p] = "tap_begin" /\ pc'[p] # "tap_begin" /\ lock = 0
               /\ EventsIn(transactions, loc[p].card_number,
                           loc[p].transaction_day) >= 1 )
             => /\ response'.status = "rejected"
                /\ response'.reason = "duplicate_daily"
                /\ transactions' = transactions
          /\ (pc[p] = "idle" /\ pc'[p] = "pre_commit") =>
                EventsIn(transactions, loc'[p].card_number, today) = 0
          /\ (Commits(p) /\ pc[p] \in {"tap_commit", "pre_commit"}) =>
                EventsIn(transactions', loc[p].card_number, loc[p].transaction_day) = 1
     /\ transactions' # transactions =>
          \A e \in DOMAIN employees, t \in TenantInputs :
            HasUsedSlot(e, today)' =>
              PreorderGateOutcome(transactions', preorders', e, t, today') = "daily_limit"]_vars

\* a tap has been rejected duplicate_daily for a card whose row of today was
\* written by a pre-order
C29_Witness ==
  /\ response.kind = "tap" /\ response.reason = "duplicate_daily"
  /\ \E e \in DOMAIN employees :
       /\ employees[e].card_number = response.tap_id.card_number
       /\ \E o \in BagToSet(preorders) : o.employee_id = e /\ o.order_date = today
       /\ EventsIn(transactions, employees[e].card_number, today) = 1

\* the card's employee record is present, not disabled and not blocked
InGoodStanding(card) ==
  \E e \in EmployeesByCard(card) : ~employees[e].is_disabled /\ ~employees[e].is_blocked

PreorderAnsweredAtOnce(p) ==
  /\ pc[p] = "idle" /\ pc'[p] = "idle" /\ lock = 0
  /\ response'.kind = "preorder" /\ response'.code # 403

\* C31: a pre-order whose INSERT into the ledger is refused by the unique
\* index on (card_number, transaction_day) is answered as a refusal of the
\* request (status 400, the daily limit), never as an internal error: a
\* pre-order that got the write lock and did not reach its commit is not
\* answered 500.
C31_PreorderUniqueViolationIsDailyLimit ==
  [][\A p \in DOMAIN pc : PreorderAnsweredAtOnce(p) => response'.code # 500]_vars

\* pre-order row o and ledger row r are the two rows of one attempt
RowsOfOneAttempt(o, r) ==
  /\ r.card_number = employees[o.employee_id].card_number
  /\ r.tenant_id = o.tenant_id
  /\ r.transaction_day = o.order_date

\* C32: a pre-order that has written its rows holds exactly one pre-order row
\* and the matching ledger row in its open transaction; its next step commits
\* both or neither; the table of pre-orders changes by nothing else; and every
\* committed pre-order row has its ledger row.
C32_PreorderRowsTogether ==
  [][/\ \A p \in DOMAIN pc :
          pc[p] = "pre_commit" =>
            /\ BagCardinality(uncommitted[p].pre) = 1
            /\ BagCardinality(uncommitted[p].tx) = 1
            /\ \A o \in BagToSet(uncommitted[p].pre), r \in BagToSet(uncommitted[p].tx) :
                 RowsOfOneAttempt(o, r)
            /\ \/ preorders' = preorders /\ transactions' = transactions
               \/ /\ preorders' = preorders (+) uncommitted[p].pre
                  /\ transactions' = transactions (+) uncommitted[p].tx
                  /\ response'.code = 201
     /\ preorders' # preorders =>
          \E p \in DOMAIN pc : pc[p] = "pre_commit" /\ Commits(p)
     /\ \A o \in BagToSet(preorders') :
          \E r \in BagToSet(transactions') : RowsOfOneAttempt(o, r)]_vars

\* a pre-order that had written both rows has failed before its commit:
\* neither table has a row and the write lock is free
C32_Witness ==
  /\ response.kind = "preorder" /\ response.code = 500
  /\ preorders = EmptyBag /\ transactions = EmptyBag
  /\ lock = 0

\* C33: the can_order_for_target of a quota-state result for tenant T is true
\* exactly when a tap for T on the same committed ledger, with the tenant's
\* stored quota and today's day key, is not rejected quota_exceeded.
C33_QuotaStateEqualsTapGate ==
  [][(QuotaStateAnswered /\ response'.code = 200) =>
       LET t == response'.quota_state.tenant_id
       IN  response'.quota_state.can_order_for_target =
             ~TapQuotaRejects(transactions, t, tenants[t].quota, today)]_vars

\* pre-order rows a and b are of the same tenant and day
SameTenantAndDay(a, b) == a.tenant_id = b.tenant_id /\ a.order_date = b.order_date

\* C34: a pre-order that commits has a ticket number above and a queue number
\* below those of every pre-order committed before it for the same tenant and
\* day, and its response carries the numbers of its row; so the committed
\* pre-orders of a tenant and day have pairwise distinct ticket numbers and
\* pairwise distinct queue numbers.
C34_TicketsUpQueueDown ==
  [][/\ \A p \in DOMAIN pc :
          (pc[p] = "pre_commit" /\ Commits(p)) =>
            \A new \in BagToSet(uncommitted[p].pre) :
              /\ response'.ticket_number = new.ticket_number
              /\ response'.queue_number = new.queue_number
              /\ \A old \in BagToSet(preorders) :
                   SameTenantAndDay(old, new) =>
                     /\ old.ticket_number < new.ticket_number
                     /\ old.queue_number > new.queue_number
     /\ \A a, b \in BagToSet(preorders') :
          (SameTenantAndDay(a, b) /\ a # b) =>
            /\ a.ticket_number # b.ticket_number
            /\ a.queue_number # b.queue_number
     /\ \A a \in BagToSet(preorders') : CopiesIn(a, preorders') = 1]_vars

\* two pre-orders have been committed for one tenant and day, the second
\* after the tenant's capacity was used up
C34_Witness ==
  /\ response.kind = "preorder" /\ response.code = 201
  /\ \E a, b \in BagToSet(preorders) :
       /\ SameTenantAndDay(a, b) /\ a # b
       /\ tenants[a.tenant_id].quota > 0
       /\ a.queue_number > 0 /\ b.queue_number < 0
       /\ response.ticket_number = b.ticket_number

\* every capacitated tenant is at or over capacity on the day
AllCapacitatedFull(rows, day) ==
  \A t \in DOMAIN tenants : Capacitated(t) => Remaining(rows, t, day) <= 0

\* handler p answers its tap in this step, rejected with quota_exceeded
TapRejectedForQuota(p) ==
  /\ pc[p] = "tap_begin" /\ pc'[p] # "tap_begin"
  /\ response'.kind = "tap" /\ response'.reason = "quota_exceeded"

\* C35: free mode is stable within a day: once every capacitated tenant is
\* at or over capacity on a day, this stays so after every step, and no tap
\* for that day is rejected with quota_exceeded.
C35_FreeModeStable ==
  [][\A day \in Days :
       AllCapacitatedFull(transactions, day) =>
         /\ AllCapacitatedFull(transactions', day)
         /\ \A p \in DOMAIN pc :
              loc[p].transaction_day = day => ~TapRejectedForQuota(p)]_vars

\* SpecUncapped: two concurrent handlers serving taps and quota-state
\* queries; a tenant's stored quota is NULL, negative, 0 or positive
UncappedEmps == {"e2", "e3"}

NullableTenantRows == [quota : {NullQuota} \cup (-1..MaxQuota), is_limited : BOOLEAN]

InitUncapped == InitWith(UncappedEmps, [TenantIds -> NullableTenantRows], Procs)

NextUncapped ==
  \/ SendResponse
  \/ \E p \in Procs :
        \/ TapStart(p) \/ TapAdmit(p) \/ TapBusy(p) \/ TapCommit(p)
        \/ GetTenantQuotaState(p)

SpecUncapped == InitUncapped /\ [][NextUncapped]_vars

\* the tenant's stored quota is NULL or negative
StoredQuotaNullOrNegative(t) == tenants[t].quota = NullQuota \/ tenants[t].quota < 0

\* C36: a tenant whose stored quota is negative or NULL is treated like an
\* uncapped tenant.  A tap for it that reaches the gates with the lock free
\* and no row of the card that day writes its row, and its commit is answered
\* accepted.  It is not counted among the tenants with remaining capacity:
\* a tap for a full tenant of positive quota is rejected with quota_exceeded
\* only if a tenant of positive quota has room, and a quota-state answer
\* reports free mode or a positive max_remaining_any only from tenants of
\* positive quota.  A quota-state answer for it reports can_order_for_target
\* true and target_is_limited false.
C36_NullOrNegativeIsUncapped ==
  [][/\ \A p \in DOMAIN pc :
          /\ ( /\ pc[p] = "tap_begin" /\ pc'[p] # "tap_begin" /\ lock = 0
               /\ StoredQuotaNullOrNegative(req[p].tenant_id)
               /\ EventsIn(transactions, loc[p].card_number, loc[p].transaction_day) = 0 )
             => pc'[p] = "tap_commit"
          /\ ( /\ pc[p] = "tap_commit" /\ pc'[p] # "tap_commit"
               /\ StoredQuotaNullOrNegative(req[p].tenant_id) )
             => /\ response'.kind = "tap" /\ response'.status = "accepted"
                /\ TenantOrdersOnDay(transactions', req[p].tenant_id, loc[p].transaction_day)
                     = TenantOrdersOnDay(transactions, req[p].tenant_id,
                                         loc[p].transaction_day) + 1
          /\ TapRejectedForQuota(p) =>
               \E u \in DOMAIN tenants :
                 /\ ~StoredQuotaNullOrNegative(u) /\ tenants[u].quota > 0
                 /\ Remaining(transactions, u, loc[p].transaction_day) > 0
     /\ (QuotaStateAnswered /\ response'.code = 200) =>
          LET quota_state == response'.quota_state
              positive == {u \in DOMAIN tenants :
                             ~StoredQuotaNullOrNegative(u) /\ tenants[u].quota > 0}
          IN  /\ StoredQuotaNullOrNegative(quota_state.tenant_id) =>
                   /\ quota_state.can_order_for_target
                   /\ ~quota_state.target_is_limited
              /\ quota_state.is_free_mode => positive # {}
              /\ quota_state.max_remaining_any > 0 =>
                   \E u \in positive :
                     tenants[u].quota - TenantOrdersOnDate(transactions, u, today) > 0
              /\ quota_state.max_remaining_any < 0 => positive # {}]_vars

\* a tap for a tenant whose stored quota is NULL has just been accepted, and
\* the ledger holds a row of today for a tenant of negative quota
C36_Witness ==
  /\ response.kind = "tap" /\ response.status = "accepted"
  /\ response.tap_id.tenant_id \in DOMAIN tenants
  /\ tenants[response.tap_id.tenant_id].quota = NullQuota
  /\ \E u \in DOMAIN tenants :
       /\ tenants[u].quota < 0 /\ tenants[u].quota # NullQuota
       /\ TenantOrdersOnDay(transactions, u, today) >= 1

(***************************************************************************)
(* SpecCanteen: one handler serving pre-orders and taps, one after the     *)
(* other, while the canteen status changes: an administrator updates the   *)
(* stored mode, an operator sets or removes the override file, time passes.*)
(***************************************************************************)
CanteenEmps == {"e2"}

InitCanteen ==
  /\ canteen \in CanteenReadings
  /\ NoStreams
  /\ employees = EmployeeTable(CanteenEmps)
  /\ tenants \in ConcurrentTenantTables
  /\ transactions = EmptyBag
  /\ preorders = EmptyBag
  /\ lock = 0
  /\ today = 1
  /\ midnights = 0
  /\ raw_ts = <<>>
  /\ local_dt = <<>>
  /\ pc = [p \in {1} |-> "idle"]
  /\ req = [p \in {1} |-> NoReq]
  /\ loc = [p \in {1} |-> NoLoc]
  /\ uncommitted = [p \in {1} |-> NoRows]
  /\ response = NoResponse
  /\ main_event_loop = TRUE
  /\ sse_event = NoSseEvent
  /\ background_tasks = NoTasks

\* what the canteen status leaves alone
beside_canteen ==
  <<employees, tenants, today, midnights, main_event_loop, raw_ts, local_dt, store,
    connections, queues, streams, sent, triggered>>

\* POST /admin/canteen-status: update_canteen_mode writes the stored mode
AdminUpdateCanteenStatus(p) ==
  /\ At(p, "idle")
  /\ lock = 0
  /\ \E new_mode \in CanteenModes :
       /\ canteen' = [canteen EXCEPT !.mode = new_mode]
       /\ Finish(p, Response("canteen_status", 200, "ok", new_mode))
  /\ UNCHANGED beside_canteen

\* manage_portal open | close | normal: set_override writes the file or
\* removes it
SetOverride ==
  /\ \E mode \in {"open", "closed", "none"} :
       /\ mode # canteen.override
       /\ canteen' = [canteen EXCEPT !.override = mode]
  /\ UNCHANGED <<beside_canteen, pc, req, loc, uncommitted, response, sse_event,
                 background_tasks>>

\* the local time of day moves on within the day
TimePasses ==
  /\ \E later \in TimesOfDay :
       /\ TimeLeq(canteen.time, later) /\ later # canteen.time
       /\ canteen' = [canteen EXCEPT !.time = later]
  /\ UNCHANGED <<beside_canteen, pc, req, loc, uncommitted, response, sse_event,
                 background_tasks>>

\* create_preorder with the canteen status as it is
PreClosedNow(p) == ~CanteenIsOpen(canteen) /\ PreClosed(p)
PreAdmitNow(p) == CanteenIsOpen(canteen) /\ PreAdmit(p)

NextCanteen ==
  \/ SendResponse
  \/ TapStart(1) \/ TapAdmit(1) \/ TapCommit(1)
  \/ PreClosedNow(1) \/ PreAdmitNow(1) \/ PreCommit(1)
  \/ AdminUpdateCanteenStatus(1) \/ SetOverride \/ TimePasses

SpecCanteen == InitCanteen /\ [][NextCanteen]_vars

\* the canteen is open as the design has it: the override file decides if it
\* says open or closed; else the stored mode OPEN, or the stored mode NORMAL
\* at a local time from 08:00 up to, not including, 11:00
OpenByDesign ==
  LET minutes == canteen.time.hour * 60 + canteen.time.minute
  IN  \/ canteen.override = "open"
      \/ /\ canteen.override # "closed"
         /\ \/ canteen.mode = "OPEN"
            \/ canteen.mode = "NORMAL" /\ minutes >= 8 * 60 /\ minutes < 11 * 60

\* C37: a pre-order goes on to its write scope only if the canteen is open
\* when it arrives; one that arrives while the canteen is closed is answered
\* 403 in that step, with the write lock, the tables and the handler's
\* uncommitted rows untouched, and 403 is answered only while closed.  A tap
\* is not gated: it is never answered 403, and a tap that arrives while the
\* canteen is closed for a card and tenant that pass the lookups goes on to
\* its write scope.
C37_PreorderGatedTapNot ==
  [][\A p \in DOMAIN pc :
       /\ (pc[p] = "idle" /\ pc'[p] = "pre_commit") => OpenByDesign
       /\ (pc[p] = "idle" /\ response = NoResponse /\ response'.kind = "preorder") =>
            /\ ~OpenByDesign =>
                 /\ response'.code = 403
                 /\ UNCHANGED <<store, uncommitted, pc>>
            /\ response'.code = 403 => ~OpenByDesign
       /\ response'.kind = "tap" => response'.code # 403
       /\ (pc[p] = "idle" /\ ~OpenByDesign /\ response = NoResponse
           /\ req'[p].kind = "tap") => pc'[p] = "tap_begin"]_vars

\* a pre-order has just been refused at a time inside the opening hours while
\* the stored mode is OPEN and the override file says closed, and the ledger
\* holds a tap's row
C37_Witness ==
  /\ response.kind = "preorder" /\ response.code = 403
  /\ canteen.mode = "OPEN" /\ canteen.override = "closed"
  /\ canteen.time.hour = CANTEEN_OPEN_HOUR
  /\ transactions # EmptyBag /\ preorders = EmptyBag

(***************************************************************************)
(* sse_manager: the streams of GET /sse and the notifications put in their *)
(* queues.  A client's queue is named by the client; a notification is     *)
(* named by its number in trigger order.                                   *)
(***************************************************************************)
\* the positions at which an event_stream that has started is suspended:
\* in q.get(), in request.is_disconnected() after a get, at either yield
RunningPcs == {"get", "check", "keepalive", "data"}

\* the clients whose queue is in the connection list
InConnections == {connections[i] : i \in DOMAIN connections}

\* connections.remove(q): the list without its first occurrence of q
RemoveFrom(list, q) ==
  LET first == CHOOSE i \in DOMAIN list :
                 list[i] = q /\ \A j \in 1..(i - 1) : list[j] # q
  IN  [i \in 1..(Len(list) - 1) |-> IF i < first THEN list[i] ELSE list[i + 1]]

\* a finally block that leaves the queue in the list
KeepInConnections(q) == connections' = connections

\* finally: if q in connections: connections.remove(q)
RemoveFromConnections(q) ==
  connections' = IF q \in InConnections THEN RemoveFrom(connections, q) ELSE connections

\* a get that returns the newest item
QueueGetNewest(queue) == queue[Len(queue)]

\* asyncio.Queue.get on a queue that holds an item: the oldest
QueueGet(queue) == Head(queue)

\* asyncio.Queue() has maxsize 0: full() is false whatever it holds
QueueFull(queue) == FALSE

\* what the streams leave alone
beside_streams ==
  <<employees, tenants, today, midnights, main_event_loop, raw_ts, local_dt, store,
    canteen, pc, req, loc, uncommitted, response, sse_event, background_tasks>>

\* the stream ends: the finally block runs and the generator is closed
EndStream(c) ==
  /\ RemoveFromConnections(c)
  /\ streams' = [streams EXCEPT ![c].pc = "ended", ![c].data = 0]

\* GET /sse: the response starts to iterate event_stream, which makes its
\* queue, appends it to connections and waits in q.get()
EventStreamStart(c) ==
  /\ streams[c].pc = "none"
  /\ connections' = Append(connections, c)
  /\ streams' = [streams EXCEPT ![c].pc = "get"]
  /\ UNCHANGED <<beside_streams, queues, sent, triggered>>

\* trigger_sse_event_async(data), run on the event loop: q.put(data) for
\* every queue of the list; a put waits only on a full queue
TriggerSseEventAsync ==
  /\ triggered < MaxEvents
  /\ \A q \in InConnections : ~QueueFull(queues[q])
  /\ triggered' = triggered + 1
  /\ queues' = [q \in Clients |->
                  IF q \in InConnections THEN Append(queues[q], triggered + 1)
                  ELSE queues[q]]
  /\ UNCHANGED <<beside_streams, connections, streams, sent>>

\* q.get() returns an item; the stream goes on to ask request.is_disconnected()
StreamGets(c) ==
  /\ streams[c].pc = "get"
  /\ queues[c] # <<>>
  /\ streams' = [streams EXCEPT ![c].pc = "check", ![c].data = QueueGet(queues[c])]
  /\ queues' = [queues EXCEPT ![c] = Tail(queues[c])]
  /\ UNCHANGED <<beside_streams, connections, sent, triggered>>

\* the client is still there: the data line is yielded
StreamYieldsData(c) ==
  /\ streams[c].pc = "check"
  /\ ~streams[c].is_disconnected
  /\ sent' = [sent EXCEPT ![c] = Append(sent[c], streams[c].data)]
  /\ streams' = [streams EXCEPT ![c].pc = "data", ![c].data = 0]
  /\ UNCHANGED <<beside_streams, connections, queues, triggered>>

\* the client has gone: break, the item taken from the queue is dropped
StreamBreaksAfterGet(c) ==
  /\ streams[c].pc = "check"
  /\ streams[c].is_disconnected
  /\ EndStream(c)
  /\ UNCHANGED <<beside_streams, queues, sent, triggered>>

\* keepalive_interval passes with the queue empty: asyncio.TimeoutError; the
\* stream breaks if the client has gone and yields a keepalive line if not
StreamTimesOut(c) ==
  /\ streams[c].pc = "get"
  /\ queues[c] = <<>>
  /\ IF streams[c].is_disconnected
     THEN EndStream(c)
     ELSE /\ streams' = [streams EXCEPT ![c].pc = "keepalive"]
          /\ UNCHANGED connections
  /\ UNCHANGED <<beside_streams, queues, sent, triggered>>

\* the response asks for the next line: the generator resumes after its yield
StreamResumes(c) ==
  /\ streams[c].pc \in {"keepalive", "data"}
  /\ streams' = [streams EXCEPT ![c].pc = "get"]
  /\ UNCHANGED <<beside_streams, connections, queues, sent, triggered>>

\* the client closes its connection: request.is_disconnected() is true from now
ClientDisconnects(c) ==
  /\ streams[c].pc \in RunningPcs
  /\ ~streams[c].is_disconnected
  /\ streams' = [streams EXCEPT ![c].is_disconnected = TRUE]
  /\ UNCHANGED <<beside_streams, connections, queues, sent, triggered>>

\* the server cancels the response of a client that has gone: CancelledError
\* at an await, or the generator is closed at a yield; the finally block runs
StreamCancelled(c) ==
  /\ streams[c].pc \in RunningPcs
  /\ streams[c].is_disconnected
  /\ EndStream(c)
  /\ UNCHANGED <<beside_streams, queues, sent, triggered>>

InitStreams == InitWith(ConcurrentEmps, {ScenarioTenants}, {1})

NextStreams ==
  \/ TriggerSseEventAsync
  \/ \E c \in Clients :
        \/ EventStreamStart(c) \/ StreamGets(c) \/ StreamYieldsData(c)
        \/ StreamBreaksAfterGet(c) \/ StreamTimesOut(c) \/ StreamResumes(c)
        \/ ClientDisconnects(c) \/ StreamCancelled(c)

SpecStreams == InitStreams /\ [][NextStreams]_vars

\* SpecStreamsFair: the event loop runs every task that is ready, and the
\* response keeps asking a stream for its next line
SpecStreamsFair ==
  /\ SpecStreams
  /\ \A c \in Clients :
       /\ WF_vars(StreamGets(c))
       /\ WF_vars(StreamYieldsData(c))
       /\ WF_vars(StreamResumes(c))

\* the item a stream has taken from its queue and not yet yielded
Held(c) == IF streams[c].pc = "check" THEN <<streams[c].data>> ELSE <<>>

\* the notifications of client c in order: yielded, taken, still queued
Course(c) == sent[c] \o Held(c) \o queues[c]

\* a is an initial part of b
IsPrefix(a, b) == Len(a) <= Len(b) /\ \A i \in DOMAIN a : a[i] = b[i]

\* C38: a run of the trigger puts its notification at the end of the queue of
\* every client in the connection list, whatever the queues hold, and no other
\* step puts anything in a queue; a stream that stays in the list yields its
\* notifications in trigger order, none lost and none twice: what it has
\* yielded, then what it has taken, then what is queued is the sequence of the
\* notifications triggered since it registered.  The trigger can always run.
\* With the event loop running every stream that can go on, a queued
\* notification is yielded to its client unless the client disconnects.
C38_DeliveredInTriggerOrder ==
  /\ \A c \in Clients, n \in 1..MaxEvents :
       (c \in InConnections /\ \E i \in DOMAIN queues[c] : queues[c][i] = n)
         ~> ((\E i \in DOMAIN sent[c] : sent[c][i] = n) \/ streams[c].is_disconnected)
  /\ [][/\ \A c \in Clients :
             /\ IsPrefix(sent[c], sent'[c])
             /\ (c \in InConnections /\ c \in InConnections') =>
                  Course(c)' = IF triggered' # triggered
                               THEN Append(Course(c), triggered')
                               ELSE Course(c)
             /\ \A i, j \in DOMAIN sent'[c] : i < j => sent'[c][i] < sent'[c][j]
        /\ triggered < MaxEvents => ENABLED TriggerSseEventAsync]_vars

\* a client has been sent all MaxEvents notifications, the last of them
\* triggered while two were waiting in its queue
C38_Witness ==
  \E c \in Clients :
    /\ Len(sent[c]) = MaxEvents
    /\ \E d \in Clients \ {c} : d \in InConnections /\ Len(queues[d]) = MaxEvents

\* the number of times q is in the list
TimesIn(list, q) == Cardinality({i \in DOMAIN list : list[i] = q})

\* C39: a client's queue is in the connection list, once, exactly while its
\* stream is running, from the step that starts the stream to the step that
\* ends it by a break or a cancellation; the queue of a stream that has ended
\* is not in the list and nothing more is put in it.
C39_QueueListedWhileStreamRuns ==
  [][\A c \in Clients :
       /\ (streams[c].pc \in RunningPcs) <=> (c \in InConnections)
       /\ (streams'[c].pc \in RunningPcs) <=> (c \in InConnections')
       /\ TimesIn(connections', c) <= 1
       /\ (c \in InConnections /\ c \notin InConnections') => streams'[c].pc = "ended"
       /\ streams[c].pc = "ended" =>
            /\ streams'[c].pc = "ended"
            /\ c \notin InConnections'
            /\ queues'[c] = queues[c]]_vars

\* a stream has ended with a notification left in its queue, a later
\* notification has been triggered and put in the queue of the other client,
\* and the list holds the other client's queue alone
C39_Witness ==
  \E c \in Clients :
    /\ streams[c].pc = "ended"
    /\ queues[c] # <<>>
    /\ queues[c][Len(queues[c])] < triggered
    /\ \E d \in Clients \ {c} :
         /\ connections = <<d>>
         /\ \E i \in DOMAIN queues[d] : queues[d][i] = triggered

====
